---- MODULE Spec2Model ----
(***************************************************************************)
(* Session broker of generatio-pb: the in-memory SessionStore              *)
(* (internal/auth), the Session object (internal/models) and the unlock    *)
(* flows of the handlers that drive it (internal/handlers).                *)
(*                                                                         *)
(* Goroutines are the elements of Threads.  A call is a sequence of steps; *)
(* one step is one access to shared state (the RWMutex, the sessions map,  *)
(* a field of a Session object, the clock).  Session objects live in heap  *)
(* and stay there after their key left the map, because callers keep the   *)
(* *Session pointer that Get returned.                                     *)
(***************************************************************************)
EXTENDS Integers, Sequences, FiniteSets, TLC

\* ---------------------------------------------------------------- bounds
\* goroutines; each serves one call (one request) and ends
NumThreads == 2
\* sessions the store holds when the calls start
MaxInit == 2
\* last instant of the clock
MaxTime == 3
\* goroutines that Start and ForceCleanup put to work
MaxRoutines == 2
\* status requests of one polling loop
MaxPolls == 2
\* applications of the normalizations to one identifier
MaxApply == 3
\* calls of Encrypt
MaxEncrypts == 2
\* values crypto/rand can return for one size
MaxRand == 2

\* SessionStore.timeout, in clock units
timeout == 1

Threads == 1..NumThreads
Users == {"u1", "u2"}

\* the empty string of each argument type
NoUser == ""
NoToken == ""
NoID == 0
NoThread == 0

\* the credential a user's stored fal_token decrypts to
Cred(u) == IF u = "u1" THEN "tokA" ELSE "tokB"

\* error values, by the text the source gives them
ErrNone == "ok"
ErrNotFound == "session not found"
ErrExpired == "session expired"
ErrAlreadyExpired == "session already expired"
ErrNoActive == "no active session found for user"
ErrEmptyUser == "user ID cannot be empty"
ErrEmptyToken == "FAL token cannot be empty"
ErrEmptyID == "session ID cannot be empty"
ErrNoToken == "no FAL token in session"
ErrInvalidPassword == "Invalid password"
ErrRetrieve == "Failed to retrieve session"
ErrSessionRequired == "Session ID required in X-Session-ID header"
ErrAuthRequired == "Authentication required"
ErrSessionNotFound == "Session not found"
ErrAccessDenied == "Access denied"
ErrValidSession == "Valid session required"

VARIABLES
    now,        \* time.Now()
    sessions,   \* SessionStore.sessions: the keys of the map
    heap,       \* the Session objects ever stored, by ID
    wlock,      \* SessionStore.mutex: the goroutine holding Lock(), or NoThread
    rlock,      \* SessionStore.mutex: the goroutines holding RLock()
    nextID,     \* the next value uuid.New() returns
    th,         \* per goroutine: its call, its position in it and its locals
    renewed,    \* history: IDs a successful ExtendSession has written
    purged,     \* history: users DeleteUserSessions served with no Create stored since
    created,    \* history: number of sessions Create stored
    removed,    \* history: number of sessions the deleting methods removed
    stopChan,   \* CleanupService.stopChan: "open" or "closed"
    reaper,     \* the goroutines that run or call performCleanup, by number
    lastCall,   \* history: the last of the Start and Stop calls made
    panicked,   \* history: a call of the CleanupService panicked
    client,     \* the call of the fal.Client in progress and its locals
    wire,       \* history: the requests the fal.Client sent, in order
    ident,      \* a model identifier and the forms the normalizations gave it
    rnd,        \* history: the values crypto/rand has returned
    enc,        \* history: the calls of Encrypt, with what they returned
    dec         \* the last call of Decrypt, with what it returned

hist == <<renewed, purged, created, removed>>

\* the variables of the CleanupService and of the fal.Client
svcVars == <<stopChan, reaper, lastCall, panicked>>
falVars == <<client, wire, ident>>
cryptoVars == <<rnd, enc, dec>>

\* what a method of the SessionStore cannot reach
offStore == <<svcVars, falVars, cryptoVars>>

vars == <<now, sessions, heap, wlock, rlock, nextID, th, renewed, purged, created, removed, svcVars, falVars,
         cryptoVars>>

\* a goroutine that has not started its call.  op, user, id and tok are the
\* call and its arguments, s the *Session it holds, c and e its time.Time
\* locals, stats and res what it returned.
Fresh ==
    [op |-> "none", pc |-> "new", user |-> NoUser, id |-> NoID, tok |-> NoToken,
     s |-> NoID, c |-> 0, e |-> 0, stats |-> <<0, 0, 0>>, res |-> "none", own |-> FALSE]

\* ------------------------------------------------------ models.Session
Session(id, user, tok, createdAt, expiresAt) ==
    [ID |-> id, UserID |-> user, FALToken |-> tok, CreatedAt |-> createdAt, ExpiresAt |-> expiresAt]

\* mutant of After: an instant is after itself
AfterOrAt(t, u) == t >= u

\* time.Time.After
After(t, u) == t > u

\* Session.IsExpired, for the ExpiresAt value read
IsExpired(expiresAt) == After(now, expiresAt)

\* mutant of SessionClear: the token is left in the object
SessionKeep(h, ids) == h

\* Session.Clear applied to the objects ids of heap h
SessionClear(h, ids) ==
    [i \in DOMAIN h |-> IF i \in ids THEN [h[i] EXCEPT !.FALToken = NoToken] ELSE h[i]]

\* ------------------------------------------------------ sync.RWMutex
CanLock == wlock = NoThread /\ rlock = {}
CanRLock == wlock = NoThread

\* ------------------------------------------------------ call bookkeeping
\* goroutines start in the order of their numbers
CanCall(t) == th[t].pc = "new" /\ (IF t = 1 THEN TRUE ELSE th[t - 1].pc # "new")

At(t, p) == th[t].pc = p

Call(op, p, u, id, tok) == [Fresh EXCEPT !.op = op, !.pc = p, !.user = u, !.id = id, !.tok = tok]

\* the goroutine returns r to its caller
Return(t, r) == [th[t] EXCEPT !.pc = "done", !.c = 0, !.e = 0, !.res = r]

\* ------------------------------------------------------ the clock
Tick ==
    /\ now < MaxTime
    /\ now' = now + 1
    /\ UNCHANGED <<sessions, heap, wlock, rlock, nextID, th, hist, offStore>>

\* ------------------------------------------------------ SessionStore.Create
\* the (userID, falToken) pairs Create is called with
CreateInputs ==
    {<<"u1", "tokA">>, <<"u1", "tokB">>, <<"u2", "tokB">>, <<NoUser, "tokA">>, <<"u1", NoToken>>}

CreateCall(t, in) ==
    /\ CanCall(t)
    /\ th' = [th EXCEPT ![t] = Call("Create", "create_new", in[1], NoID, in[2])]
    /\ UNCHANGED <<now, sessions, heap, wlock, rlock, nextID, hist, offStore>>

\* the argument checks, uuid.New() and CreatedAt: time.Now()
CreateNew(t) ==
    /\ At(t, "create_new")
    /\ IF th[t].user = NoUser
         THEN th' = [th EXCEPT ![t] = Return(t, ErrEmptyUser)] /\ UNCHANGED nextID
       ELSE IF th[t].tok = NoToken
         THEN th' = [th EXCEPT ![t] = Return(t, ErrEmptyToken)] /\ UNCHANGED nextID
       ELSE /\ th' = [th EXCEPT ![t].pc = "create_expires", ![t].id = nextID, ![t].c = now]
            /\ nextID' = nextID + 1
    /\ UNCHANGED <<now, sessions, heap, wlock, rlock, hist, offStore>>

\* ExpiresAt: time.Now().Add(s.timeout)
CreateExpires(t) ==
    /\ At(t, "create_expires")
    /\ th' = [th EXCEPT ![t].pc = "create_store", ![t].e = now + timeout]
    /\ UNCHANGED <<now, sessions, heap, wlock, rlock, nextID, hist, offStore>>

\* where the caller of Create goes on after it returned the new ID:
\* CreateSession calls Get(sessionID), CustomLogin and a direct caller are done
AfterCreate(t) ==
    IF th[t].op = "CreateSession"
      THEN [th[t] EXCEPT !.pc = "get_lookup", !.c = 0, !.e = 0]
      ELSE Return(t, ErrNone)

\* mutant of CreateStore: the new session replaces the user's earlier ones
CreateStoreEvicting(t) ==
    /\ At(t, "create_store")
    /\ CanLock
    /\ sessions' = (sessions \ {i \in sessions : heap[i].UserID = th[t].user}) \cup {th[t].id}
    /\ heap' = heap @@ (th[t].id :> Session(th[t].id, th[t].user, th[t].tok, th[t].c, th[t].e))
    /\ th' = [th EXCEPT ![t] = AfterCreate(t)]
    /\ purged' = purged \ {th[t].user}
    /\ created' = created + 1
    /\ UNCHANGED <<now, wlock, rlock, nextID, renewed, removed, offStore>>

\* Lock; s.sessions[sessionID] = session; Unlock
CreateStore(t) ==
    /\ At(t, "create_store")
    /\ CanLock
    /\ sessions' = sessions \cup {th[t].id}
    /\ heap' = heap @@ (th[t].id :> Session(th[t].id, th[t].user, th[t].tok, th[t].c, th[t].e))
    /\ th' = [th EXCEPT ![t] = AfterCreate(t)]
    /\ purged' = purged \ {th[t].user}
    /\ created' = created + 1
    /\ UNCHANGED <<now, wlock, rlock, nextID, renewed, removed, offStore>>

\* ------------------------------------------------------ data races
\* the next step of goroutine w writes field f of the Session object s
WritesNext(w, s, f) ==
    \/ f = "ExpiresAt" /\ At(w, "extend_write") /\ th[w].id = s
    \/ f = "FALToken" /\ At(w, "delete_clear") /\ th[w].id = s
    \/ f = "FALToken" /\ At(w, "dus_clear") /\ s \in sessions /\ heap[s].UserID = th[w].user
    \/ f = "FALToken" /\ At(w, "cleanup_scan") /\ s \in sessions /\ After(now, heap[s].ExpiresAt)
    \/ f = "FALToken" /\ At(w, "clear_all") /\ s \in sessions

\* the next step of goroutine r reads field f of the Session object s
ReadsNext(r, s, f) ==
    \/ f = "ExpiresAt" /\ At(r, "get_check") /\ th[r].s = s
    \/ f = "ExpiresAt" /\ At(r, "gus_scan") /\ s \in sessions /\ heap[s].UserID = th[r].user
    \/ f = "ExpiresAt" /\ At(r, "stats_count") /\ s \in sessions
    \/ f = "FALToken" /\ At(r, "token_read") /\ th[r].s = s
    \/ f = "FALToken" /\ At(r, "gen_token") /\ th[r].s = s

\* a write of the field by another goroutine is not ordered with t's read
Racing(t, s, f) == \E w \in Threads \ {t} : WritesNext(w, s, f)

\* what session.IsExpired() can return to t: the value of the field, or
\* anything when the read races with a write (the Go memory model gives a
\* racing read of a multi-word value no meaning)
IsExpiredRead(t, s) ==
    IF Racing(t, s, "ExpiresAt") THEN BOOLEAN ELSE {IsExpired(heap[s].ExpiresAt)}

\* what a read of session.FALToken can return to t
FALTokenRead(t, s) ==
    IF Racing(t, s, "FALToken") THEN {heap[s].FALToken, NoToken} ELSE {heap[s].FALToken}

\* ------------------------------------------------------ SessionStore.Delete
DeleteCall(t, id) ==
    /\ CanCall(t)
    /\ th' = [th EXCEPT ![t] =
                IF id = NoID THEN [Call("Delete", "done", NoUser, id, NoToken) EXCEPT !.res = ErrEmptyID]
                ELSE Call("Delete", "delete_lock", NoUser, id, NoToken)]
    /\ UNCHANGED <<now, sessions, heap, wlock, rlock, nextID, hist, offStore>>

\* where the caller of Delete goes on: Get returns "session expired" to its
\* own caller (CreateSession answers "Failed to retrieve session"); c keeps
\* the instant of Get's session.IsExpired()
AfterDelete(t) ==
    IF th[t].op = "Delete" THEN Return(t, ErrNone)
    ELSE IF th[t].op = "CreateSession" THEN [Return(t, ErrRetrieve) EXCEPT !.c = th[t].c]
    ELSE IF th[t].op = "DeleteSession"
      THEN [Return(t, IF th[t].own THEN ErrNone ELSE ErrSessionNotFound) EXCEPT !.c = th[t].c]
    ELSE IF th[t].op = "GenerateImage" THEN [Return(t, ErrValidSession) EXCEPT !.c = th[t].c]
    ELSE [Return(t, ErrExpired) EXCEPT !.c = th[t].c]

\* mutant of DeleteLock: an absent id is an error
DeleteLockMissing(t) ==
    /\ At(t, "delete_lock")
    /\ CanLock
    /\ IF th[t].id \in sessions
         THEN wlock' = t /\ th' = [th EXCEPT ![t].pc = "delete_clear"]
         ELSE wlock' = wlock /\ th' = [th EXCEPT ![t] = Return(t, ErrNotFound)]
    /\ UNCHANGED <<now, sessions, heap, rlock, nextID, hist, offStore>>

\* Lock; session, exists := s.sessions[sessionID]; absent: return nil (Unlock)
DeleteLock(t) ==
    /\ At(t, "delete_lock")
    /\ CanLock
    /\ IF th[t].id \in sessions
         THEN wlock' = t /\ th' = [th EXCEPT ![t].pc = "delete_clear"]
         ELSE wlock' = wlock /\ th' = [th EXCEPT ![t] = AfterDelete(t)]
    /\ UNCHANGED <<now, sessions, heap, rlock, nextID, hist, offStore>>

\* session.Clear(); delete(s.sessions, sessionID); return nil (Unlock)
DeleteClear(t) ==
    /\ At(t, "delete_clear")
    /\ heap' = SessionClear(heap, {th[t].id})
    /\ sessions' = sessions \ {th[t].id}
    /\ wlock' = NoThread
    /\ th' = [th EXCEPT ![t] = AfterDelete(t)]
    /\ removed' = removed + 1
    /\ UNCHANGED <<now, rlock, nextID, renewed, purged, created, offStore>>

\* ------------------------------------------------------ SessionStore.Get
GetCall(t, id) ==
    /\ CanCall(t)
    /\ th' = [th EXCEPT ![t] =
                IF id = NoID THEN [Call("Get", "done", NoUser, id, NoToken) EXCEPT !.res = ErrEmptyID]
                ELSE Call("Get", "get_lookup", NoUser, id, NoToken)]
    /\ UNCHANGED <<now, sessions, heap, wlock, rlock, nextID, hist, offStore>>

\* where the caller of Get goes on after an error
AfterGetError(t, err) ==
    IF th[t].op = "CreateSession" THEN Return(t, ErrRetrieve)
    ELSE IF th[t].op = "DeleteSession" THEN Return(t, ErrSessionNotFound)
    ELSE IF th[t].op = "GenerateImage" THEN Return(t, ErrValidSession)
    ELSE Return(t, err)

\* session, exists := s.sessions[sessionID]; if !exists { return "session not found" }
Looked(t) ==
    IF th[t].id \in sessions THEN [th[t] EXCEPT !.pc = "get_check", !.s = th[t].id]
    ELSE AfterGetError(t, ErrNotFound)

\* mutant of GetLookup: the read lock is kept after the lookup
GetLookupHolding(t) ==
    /\ At(t, "get_lookup")
    /\ CanRLock
    /\ rlock' = rlock \cup {t}
    /\ th' = [th EXCEPT ![t] = Looked(t)]
    /\ UNCHANGED <<now, sessions, heap, wlock, nextID, hist, offStore>>

\* RLock; the lookup; RUnlock
GetLookup(t) ==
    /\ At(t, "get_lookup")
    /\ CanRLock
    /\ th' = [th EXCEPT ![t] = Looked(t)]
    /\ UNCHANGED <<now, sessions, heap, wlock, rlock, nextID, hist, offStore>>

\* mutant of Checked: the expired error without the Delete
CheckedNoDelete(t, expired) ==
    IF expired THEN [Return(t, ErrExpired) EXCEPT !.c = now]
    ELSE IF th[t].op = "GetFALToken" THEN [th[t] EXCEPT !.pc = "token_read", !.c = now]
    ELSE [Return(t, ErrNone) EXCEPT !.c = now]

\* if session.IsExpired() { s.Delete(sessionID); return "session expired" };
\* return session.  GetFALToken goes on to read session.FALToken.  c keeps
\* the instant of the time.Now() inside IsExpired.
Checked(t, expired) ==
    IF expired THEN [th[t] EXCEPT !.pc = "delete_lock", !.c = now]
    ELSE IF th[t].op = "GetFALToken" THEN [th[t] EXCEPT !.pc = "token_read", !.c = now]
    ELSE IF th[t].op \in {"DeleteSession", "GenerateImage"}
      THEN [th[t] EXCEPT !.pc = "owner_check", !.c = now]
    ELSE [Return(t, ErrNone) EXCEPT !.c = now]

GetCheck(t) ==
    /\ At(t, "get_check")
    /\ \E expired \in IsExpiredRead(t, th[t].s) : th' = [th EXCEPT ![t] = Checked(t, expired)]
    /\ UNCHANGED <<now, sessions, heap, wlock, rlock, nextID, hist, offStore>>

\* ------------------------------------------------------ SessionStore.GetFALToken
GetFALTokenCall(t, id) ==
    /\ CanCall(t)
    /\ th' = [th EXCEPT ![t] =
                IF id = NoID THEN [Call("GetFALToken", "done", NoUser, id, NoToken) EXCEPT !.res = ErrEmptyID]
                ELSE Call("GetFALToken", "get_lookup", NoUser, id, NoToken)]
    /\ UNCHANGED <<now, sessions, heap, wlock, rlock, nextID, hist, offStore>>

\* if session.FALToken == "" { return "no FAL token in session" }; return it
TokenRead(t) ==
    /\ At(t, "token_read")
    /\ \E v \in FALTokenRead(t, th[t].s) :
         th' = [th EXCEPT ![t] =
                  IF v = NoToken THEN [Return(t, ErrNoToken) EXCEPT !.c = th[t].c]
                  ELSE [Return(t, ErrNone) EXCEPT !.tok = v, !.c = th[t].c]]
    /\ UNCHANGED <<now, sessions, heap, wlock, rlock, nextID, hist, offStore>>

\* ------------------------------------------------------ the handlers with a session
\* Handler.DeleteSession for a request of user u (NoUser: e.Auth is nil)
\* with the X-Session-ID header id (NoID: no header)
HandlerDeleteSessionCall(t, u, id) ==
    /\ CanCall(t)
    /\ th' = [th EXCEPT ![t] =
                IF id = NoID
                  THEN [Call("DeleteSession", "done", u, id, NoToken) EXCEPT !.res = ErrSessionRequired]
                ELSE IF u = NoUser
                  THEN [Call("DeleteSession", "done", u, id, NoToken) EXCEPT !.res = ErrAuthRequired]
                ELSE Call("DeleteSession", "get_lookup", u, id, NoToken)]
    /\ UNCHANGED <<now, sessions, heap, wlock, rlock, nextID, hist, offStore>>

\* Handler.GenerateImage for a request with model and prompt: every error of
\* getAuthenticatedUserAndSession is answered "Valid session required"
HandlerGenerateImageCall(t, u, id) ==
    /\ CanCall(t)
    /\ th' = [th EXCEPT ![t] =
                IF u = NoUser \/ id = NoID
                  THEN [Call("GenerateImage", "done", u, id, NoToken) EXCEPT !.res = ErrValidSession]
                ELSE Call("GenerateImage", "get_lookup", u, id, NoToken)]
    /\ UNCHANGED <<now, sessions, heap, wlock, rlock, nextID, hist, offStore>>

\* mutant of OwnerCheck: session.UserID is not compared
OwnerCheckOpen(t) ==
    /\ At(t, "owner_check")
    /\ th' = [th EXCEPT ![t] =
                IF th[t].op = "DeleteSession"
                  THEN [th[t] EXCEPT !.pc = "delete_lock", !.own = TRUE]
                  ELSE [th[t] EXCEPT !.pc = "gen_token", !.own = TRUE]]
    /\ UNCHANGED <<now, sessions, heap, wlock, rlock, nextID, hist, offStore>>

\* if session.UserID != user.Id: "Access denied", or the error of
\* getAuthenticatedUserAndSession; otherwise DeleteSession calls
\* h.sessionStore.Delete(sessionID) and GenerateImage goes on with the session
OwnerCheck(t) ==
    /\ At(t, "owner_check")
    /\ th' = [th EXCEPT ![t] =
                IF heap[th[t].s].UserID # th[t].user
                  THEN [Return(t, IF th[t].op = "DeleteSession" THEN ErrAccessDenied
                                                                ELSE ErrValidSession)
                          EXCEPT !.c = th[t].c]
                ELSE IF th[t].op = "DeleteSession"
                  THEN [th[t] EXCEPT !.pc = "delete_lock", !.own = TRUE]
                ELSE [th[t] EXCEPT !.pc = "gen_token", !.own = TRUE]]
    /\ UNCHANGED <<now, sessions, heap, wlock, rlock, nextID, hist, offStore>>

\* h.falClient.GenerateImage(ctx, session.FALToken, falReq): tok is the
\* token the generation client is called with
GenToken(t) ==
    /\ At(t, "gen_token")
    /\ \E v \in FALTokenRead(t, th[t].s) :
         th' = [th EXCEPT ![t] = [Return(t, ErrNone) EXCEPT !.tok = v, !.c = th[t].c]]
    /\ UNCHANGED <<now, sessions, heap, wlock, rlock, nextID, hist, offStore>>

\* ------------------------------------------------------ SessionStore.GetUserSession
GetUserSessionCall(t, u) ==
    /\ CanCall(t)
    /\ th' = [th EXCEPT ![t] =
                IF u = NoUser THEN [Call("GetUserSession", "done", u, NoID, NoToken) EXCEPT !.res = ErrEmptyUser]
                ELSE Call("GetUserSession", "gus_rlock", u, NoID, NoToken)]
    /\ UNCHANGED <<now, sessions, heap, wlock, rlock, nextID, hist, offStore>>

GetUserSessionRLock(t) ==
    /\ At(t, "gus_rlock")
    /\ CanRLock
    /\ rlock' = rlock \cup {t}
    /\ th' = [th EXCEPT ![t].pc = "gus_scan"]
    /\ UNCHANGED <<now, sessions, heap, wlock, nextID, hist, offStore>>

\* mutant of UserSessions: session.IsExpired() is not asked
UserSessionsStale(u) == {i \in sessions : heap[i].UserID = u}

\* the sessions the range loop can return: map order is unspecified
UserSessions(u) == {i \in sessions : heap[i].UserID = u /\ ~IsExpired(heap[i].ExpiresAt)}

\* the loop over s.sessions, the return and the deferred RUnlock
GetUserSessionScan(t) ==
    /\ At(t, "gus_scan")
    /\ IF UserSessions(th[t].user) = {}
         THEN th' = [th EXCEPT ![t] = Return(t, ErrNoActive)]
         ELSE \E i \in UserSessions(th[t].user) :
                th' = [th EXCEPT ![t] = [Return(t, ErrNone) EXCEPT !.s = i]]
    /\ rlock' = rlock \ {t}
    /\ UNCHANGED <<now, sessions, heap, wlock, nextID, hist, offStore>>

\* ------------------------------------------------------ SessionStore.DeleteUserSessions
DeleteUserSessionsCall(t, u) ==
    /\ CanCall(t)
    /\ th' = [th EXCEPT ![t] =
                IF u = NoUser THEN [Call("DeleteUserSessions", "done", u, NoID, NoToken) EXCEPT !.res = ErrEmptyUser]
                ELSE Call("DeleteUserSessions", "dus_lock", u, NoID, NoToken)]
    /\ UNCHANGED <<now, sessions, heap, wlock, rlock, nextID, hist, offStore>>

DeleteUserSessionsLock(t) ==
    /\ At(t, "dus_lock")
    /\ CanLock
    /\ wlock' = t
    /\ th' = [th EXCEPT ![t].pc = "dus_clear"]
    /\ UNCHANGED <<now, sessions, heap, rlock, nextID, hist, offStore>>

\* mutant of OwnedBy: the loop stops at the first session of the user
OwnedByFirst(u) ==
    LET all == {i \in sessions : heap[i].UserID = u}
    IN  IF all = {} THEN {} ELSE {CHOOSE i \in all : TRUE}

\* toDelete of DeleteUserSessions
OwnedBy(u) == {i \in sessions : heap[i].UserID = u}


\* where the caller of DeleteUserSessions goes on: the unlock flows call Create
AfterDeleteUserSessions(t) ==
    IF th[t].op \in {"CreateSession", "CustomLogin"}
      THEN [th[t] EXCEPT !.pc = "create_new"]
      ELSE Return(t, ErrNone)

\* the first loop: session.Clear() and toDelete = append(toDelete, sessionID);
\* the second loop: delete(s.sessions, sessionID); return nil (Unlock)
DeleteUserSessionsClear(t) ==
    /\ At(t, "dus_clear")
    /\ heap' = SessionClear(heap, OwnedBy(th[t].user))
    /\ sessions' = sessions \ OwnedBy(th[t].user)
    /\ wlock' = NoThread
    /\ th' = [th EXCEPT ![t] = AfterDeleteUserSessions(t)]
    /\ purged' = purged \cup {th[t].user}
    /\ removed' = removed + Cardinality(OwnedBy(th[t].user))
    /\ UNCHANGED <<now, rlock, nextID, renewed, created, offStore>>

\* ------------------------------------------------------ SessionStore.Cleanup
CleanupCall(t) ==
    /\ CanCall(t)
    /\ th' = [th EXCEPT ![t] = Call("Cleanup", "cleanup_lock", NoUser, NoID, NoToken)]
    /\ UNCHANGED <<now, sessions, heap, wlock, rlock, nextID, hist, offStore>>

CleanupLock(t) ==
    /\ At(t, "cleanup_lock")
    /\ CanLock
    /\ wlock' = t
    /\ th' = [th EXCEPT ![t].pc = "cleanup_scan"]
    /\ UNCHANGED <<now, sessions, heap, rlock, nextID, hist, offStore>>

\* mutant of ExpiredAt: a session expiring at n is swept too
ExpiredAtOrBefore(n) == {i \in sessions : n >= heap[i].ExpiresAt}

\* toDelete of Cleanup at the instant n
ExpiredAt(n) == {i \in sessions : After(n, heap[i].ExpiresAt)}

\* now := time.Now(); the first loop: session.Clear(), append to toDelete;
\* the second loop: delete(s.sessions, sessionID); Unlock
CleanupScan(t) ==
    /\ At(t, "cleanup_scan")
    /\ heap' = SessionClear(heap, ExpiredAt(now))
    /\ sessions' = sessions \ ExpiredAt(now)
    /\ wlock' = NoThread
    /\ th' = [th EXCEPT ![t] = [Return(t, ErrNone) EXCEPT !.c = now]]
    /\ removed' = removed + Cardinality(ExpiredAt(now))
    /\ UNCHANGED <<now, rlock, nextID, renewed, purged, created, offStore>>

\* ------------------------------------------------------ SessionStore.Stats
StatsCall(t) ==
    /\ CanCall(t)
    /\ th' = [th EXCEPT ![t] = Call("Stats", "stats_rlock", NoUser, NoID, NoToken)]
    /\ UNCHANGED <<now, sessions, heap, wlock, rlock, nextID, hist, offStore>>

StatsRLock(t) ==
    /\ At(t, "stats_rlock")
    /\ CanRLock
    /\ rlock' = rlock \cup {t}
    /\ th' = [th EXCEPT ![t].pc = "stats_count"]
    /\ UNCHANGED <<now, sessions, heap, wlock, nextID, hist, offStore>>

\* mutant of StatsAt: a session expiring at n is counted neither active nor expired
StatsAtStrict(n) ==
    <<Cardinality(sessions),
      Cardinality({i \in sessions : After(heap[i].ExpiresAt, n)}),
      Cardinality({i \in sessions : After(n, heap[i].ExpiresAt)})>>

\* SessionStats{TotalSessions, ActiveSessions, ExpiredSessions} at the instant n
StatsAt(n) ==
    <<Cardinality(sessions),
      Cardinality({i \in sessions : ~After(n, heap[i].ExpiresAt)}),
      Cardinality({i \in sessions : After(n, heap[i].ExpiresAt)})>>

\* len(s.sessions), now := time.Now(), the counting loop, RUnlock
StatsCount(t) ==
    /\ At(t, "stats_count")
    /\ th' = [th EXCEPT ![t] = [Return(t, ErrNone) EXCEPT !.stats = StatsAt(now)]]
    /\ rlock' = rlock \ {t}
    /\ UNCHANGED <<now, sessions, heap, wlock, nextID, hist, offStore>>

\* ------------------------------------------------------ SessionStore.ExtendSession
ExtendSessionCall(t, id) ==
    /\ CanCall(t)
    /\ th' = [th EXCEPT ![t] =
                IF id = NoID THEN [Call("ExtendSession", "done", NoUser, id, NoToken) EXCEPT !.res = ErrEmptyID]
                ELSE Call("ExtendSession", "extend_lock", NoUser, id, NoToken)]
    /\ UNCHANGED <<now, sessions, heap, wlock, rlock, nextID, hist, offStore>>

\* mutant of ExtendSessionLock: no session.IsExpired() before the write
ExtendSessionLockUnchecked(t) ==
    /\ At(t, "extend_lock")
    /\ CanLock
    /\ IF th[t].id \notin sessions
         THEN wlock' = wlock /\ th' = [th EXCEPT ![t] = Return(t, ErrNotFound)]
         ELSE wlock' = t /\ th' = [th EXCEPT ![t].pc = "extend_write"]
    /\ UNCHANGED <<now, sessions, heap, rlock, nextID, hist, offStore>>

\* Lock; the lookup and session.IsExpired(); the error returns unlock
ExtendSessionLock(t) ==
    /\ At(t, "extend_lock")
    /\ CanLock
    /\ IF th[t].id \notin sessions
         THEN wlock' = wlock /\ th' = [th EXCEPT ![t] = Return(t, ErrNotFound)]
       ELSE IF IsExpired(heap[th[t].id].ExpiresAt)
         THEN wlock' = wlock /\ th' = [th EXCEPT ![t] = Return(t, ErrAlreadyExpired)]
       ELSE wlock' = t /\ th' = [th EXCEPT ![t].pc = "extend_write"]
    /\ UNCHANGED <<now, sessions, heap, rlock, nextID, hist, offStore>>

\* mutant of Extended: the timeout is added to the old ExpiresAt
ExtendedFromOld(old, n) == old + timeout

\* the ExpiresAt ExtendSession writes at the instant n
Extended(old, n) == n + timeout

\* mutant of ExtendSessionWrite: the session is stamped as created anew
ExtendSessionWriteRestamped(t) ==
    /\ At(t, "extend_write")
    /\ heap' = [heap EXCEPT ![th[t].id].ExpiresAt = Extended(@, now), ![th[t].id].CreatedAt = now]
    /\ wlock' = NoThread
    /\ renewed' = renewed \cup {th[t].id}
    /\ th' = [th EXCEPT ![t] = [Return(t, ErrNone) EXCEPT !.c = now]]
    /\ UNCHANGED <<now, sessions, rlock, nextID, purged, created, removed, offStore>>

\* session.ExpiresAt = time.Now().Add(s.timeout); return nil (Unlock)
ExtendSessionWrite(t) ==
    /\ At(t, "extend_write")
    /\ heap' = [heap EXCEPT ![th[t].id].ExpiresAt = Extended(@, now)]
    /\ wlock' = NoThread
    /\ renewed' = renewed \cup {th[t].id}
    /\ th' = [th EXCEPT ![t] = [Return(t, ErrNone) EXCEPT !.c = now]]
    /\ UNCHANGED <<now, sessions, rlock, nextID, purged, created, removed, offStore>>

\* ------------------------------------------------------ SessionStore.Clear
ClearCall(t) ==
    /\ CanCall(t)
    /\ th' = [th EXCEPT ![t] = Call("Clear", "clear_lock", NoUser, NoID, NoToken)]
    /\ UNCHANGED <<now, sessions, heap, wlock, rlock, nextID, hist, offStore>>

ClearLock(t) ==
    /\ At(t, "clear_lock")
    /\ CanLock
    /\ wlock' = t
    /\ th' = [th EXCEPT ![t].pc = "clear_all"]
    /\ UNCHANGED <<now, sessions, heap, rlock, nextID, hist, offStore>>

\* the loop: session.Clear() on every session of the map;
\* s.sessions = make(map[string]*models.Session); Unlock
ClearAll(t) ==
    /\ At(t, "clear_all")
    /\ heap' = SessionClear(heap, sessions)
    /\ sessions' = {}
    /\ wlock' = NoThread
    /\ th' = [th EXCEPT ![t] = Return(t, ErrNone)]
    /\ removed' = removed + Cardinality(sessions)
    /\ UNCHANGED <<now, rlock, nextID, renewed, purged, created, offStore>>

\* ------------------------------------------------------ the unlock flows
\* Handler.CreateSession from h.encService.Decrypt on: a failed Decrypt
\* answers "Invalid password"; otherwise DeleteUserSessions(user.Id),
\* Create(user.Id, decryptedToken), Get(sessionID)
CreateSessionCall(t, u, decrypts) ==
    /\ CanCall(t)
    /\ th' = [th EXCEPT ![t] =
                IF decrypts THEN Call("CreateSession", "dus_lock", u, NoID, Cred(u))
                ELSE [Call("CreateSession", "done", u, NoID, NoToken) EXCEPT !.res = ErrInvalidPassword]]
    /\ UNCHANGED <<now, sessions, heap, wlock, rlock, nextID, hist, offStore>>

\* mutant of CustomLoginCall: the sessions are replaced whatever Decrypt said
CustomLoginCallBlind(t, u, decrypts) ==
    /\ CanCall(t)
    /\ th' = [th EXCEPT ![t] =
                Call("CustomLogin", "dus_lock", u, NoID, IF decrypts THEN Cred(u) ELSE NoToken)]
    /\ UNCHANGED <<now, sessions, heap, wlock, rlock, nextID, hist, offStore>>

\* Handler.CustomLogin from h.encService.Decrypt on: a failed Decrypt logs in
\* without a session; otherwise DeleteUserSessions(user.Id),
\* Create(user.Id, decryptedToken)
CustomLoginCall(t, u, decrypts) ==
    /\ CanCall(t)
    /\ th' = [th EXCEPT ![t] =
                IF decrypts THEN Call("CustomLogin", "dus_lock", u, NoID, Cred(u))
                ELSE [Call("CustomLogin", "done", u, NoID, NoToken) EXCEPT !.res = ErrInvalidPassword]]
    /\ UNCHANGED <<now, sessions, heap, wlock, rlock, nextID, hist, offStore>>

\* ------------------------------------------------------ CleanupService
\* A goroutine of the service is either a run loop that Start spawned or a
\* caller of ForceCleanup.  tick is the ticker's channel (capacity one) of a
\* run loop.  Each store call of performCleanup is one step: the call holds
\* the store's lock from its first access to its last, and the sweep reads no
\* field of a session outside of it.
Routines == 1..MaxRoutines

Idle == [kind |-> "none", pc |-> "none", tick |-> FALSE]

\* NewCleanupService: stopChan: make(chan struct{})
SvcInit ==
    /\ stopChan = "open"
    /\ reaper = [g \in Routines |-> Idle]
    /\ lastCall = "none"
    /\ panicked = FALSE

\* goroutines are numbered in the order they start
CanSpawn(g) == reaper[g].kind = "none" /\ (IF g = 1 THEN TRUE ELSE reaper[g - 1].kind # "none")

\* a goroutine inside performCleanup
Sweeping(g) == reaper[g].pc \in {"stats_before", "cleanup", "stats_after"}

\* a run loop that has not returned
Looping(g) == reaper[g].kind = "run" /\ reaper[g].pc # "returned"

\* Start: go c.run()
Start(g) ==
    /\ CanSpawn(g)
    /\ reaper' = [reaper EXCEPT ![g] = [kind |-> "run", pc |-> "ticker", tick |-> FALSE]]
    /\ lastCall' = "Start"
    /\ UNCHANGED <<now, sessions, heap, wlock, rlock, nextID, th, hist, stopChan, panicked, falVars, cryptoVars>>

\* Stop: close(c.stopChan); the close of a closed channel panics
Stop ==
    /\ IF stopChan = "open"
         THEN stopChan' = "closed" /\ panicked' = panicked
         ELSE stopChan' = stopChan /\ panicked' = TRUE
    /\ lastCall' = "Stop"
    /\ UNCHANGED <<now, sessions, heap, wlock, rlock, nextID, th, hist, reaper, falVars, cryptoVars>>

\* run: ticker := time.NewTicker(c.interval); defer ticker.Stop()
RunTicker(g) ==
    /\ reaper[g].kind = "run" /\ reaper[g].pc = "ticker"
    /\ reaper' = [reaper EXCEPT ![g].pc = "select"]
    /\ UNCHANGED <<now, sessions, heap, wlock, rlock, nextID, th, hist, stopChan, lastCall, panicked, falVars, cryptoVars>>

\* the ticker of a loop sends on ticker.C; a tick that finds the channel full is dropped
TickerFire(g) ==
    /\ Looping(g) /\ reaper[g].pc # "ticker"
    /\ ~reaper[g].tick
    /\ reaper' = [reaper EXCEPT ![g].tick = TRUE]
    /\ UNCHANGED <<now, sessions, heap, wlock, rlock, nextID, th, hist, stopChan, lastCall, panicked, falVars, cryptoVars>>

\* select: case <-ticker.C: c.performCleanup()
RunTick(g) ==
    /\ reaper[g].kind = "run" /\ reaper[g].pc = "select"
    /\ reaper[g].tick
    /\ reaper' = [reaper EXCEPT ![g].pc = "stats_before", ![g].tick = FALSE]
    /\ UNCHANGED <<now, sessions, heap, wlock, rlock, nextID, th, hist, stopChan, lastCall, panicked, falVars, cryptoVars>>

\* mutant of RunStop: the loop does not leave on a closed stopChan
RunStopStay(g) ==
    /\ reaper[g].kind = "run" /\ reaper[g].pc = "select"
    /\ stopChan = "closed"
    /\ reaper' = [reaper EXCEPT ![g].tick = FALSE]
    /\ UNCHANGED <<now, sessions, heap, wlock, rlock, nextID, th, hist, stopChan, lastCall, panicked, falVars, cryptoVars>>

\* select: case <-c.stopChan: return (a closed channel is always ready); the
\* deferred ticker.Stop() ends the ticks
RunStop(g) ==
    /\ reaper[g].kind = "run" /\ reaper[g].pc = "select"
    /\ stopChan = "closed"
    /\ reaper' = [reaper EXCEPT ![g].pc = "returned", ![g].tick = FALSE]
    /\ UNCHANGED <<now, sessions, heap, wlock, rlock, nextID, th, hist, stopChan, lastCall, panicked, falVars, cryptoVars>>

\* ForceCleanup: c.performCleanup() on the caller's goroutine
ForceCleanup(g) ==
    /\ CanSpawn(g)
    /\ reaper' = [reaper EXCEPT ![g] = [kind |-> "force", pc |-> "stats_before", tick |-> FALSE]]
    /\ UNCHANGED <<now, sessions, heap, wlock, rlock, nextID, th, hist, stopChan, lastCall, panicked, falVars, cryptoVars>>

\* performCleanup: startTime := time.Now(); statsBefore := c.sessionStore.Stats()
\* (the statistics go to the log only)
PerformStatsBefore(g) ==
    /\ reaper[g].pc = "stats_before"
    /\ CanRLock
    /\ reaper' = [reaper EXCEPT ![g].pc = "cleanup"]
    /\ UNCHANGED <<now, sessions, heap, wlock, rlock, nextID, th, hist, stopChan, lastCall, panicked, falVars, cryptoVars>>

\* performCleanup: c.sessionStore.Cleanup()
PerformCleanup(g) ==
    /\ reaper[g].pc = "cleanup"
    /\ CanLock
    /\ heap' = SessionClear(heap, ExpiredAt(now))
    /\ sessions' = sessions \ ExpiredAt(now)
    /\ removed' = removed + Cardinality(ExpiredAt(now))
    /\ reaper' = [reaper EXCEPT ![g].pc = "stats_after"]
    /\ UNCHANGED <<now, wlock, rlock, nextID, th, renewed, purged, created, stopChan, lastCall, panicked, falVars, cryptoVars>>

\* performCleanup: statsAfter := c.sessionStore.Stats(), the log lines and the
\* return: to the select of run, or to the caller of ForceCleanup
PerformStatsAfter(g) ==
    /\ reaper[g].pc = "stats_after"
    /\ CanRLock
    /\ reaper' = [reaper EXCEPT ![g].pc = IF reaper[g].kind = "run" THEN "select" ELSE "returned"]
    /\ UNCHANGED <<now, sessions, heap, wlock, rlock, nextID, th, hist, stopChan, lastCall, panicked, falVars, cryptoVars>>

\* ------------------------------------------------------ crypto: EncryptionService
\* the sizes of salt, nonce and GCM tag in bytes
SaltSize == 32
NonceSize == 12
TagSize == 16

\* the block of HMAC-SHA256 in bytes, with 2 standing for 64
BlockSize == 2

\* passwords, as their bytes: the empty one, two that differ in a trailing
\* zero byte, another short one, and one longer than the block of the HMAC
Passwords == {<<>>, <<1>>, <<1, 0>>, <<2>>, <<1, 0, 0>>}

Plaintexts == {"", "tokA", "tokB"}

\* the strings of an EncryptResult and of the arguments of Decrypt: the
\* base64 text of some bytes, the empty string, or a text that is no base64
NoBytes == [len |-> 0]
Str64(bytes) == [kind |-> "b64", bytes |-> bytes]
EmptyStr == [kind |-> "empty", bytes |-> NoBytes]
BadStr == [kind |-> "bad", bytes |-> NoBytes]

\* the key hmac.New works with: a key longer than the block is hashed, a
\* shorter one is filled up with zero bytes
HmacKey(password) ==
    IF Len(password) > BlockSize THEN [sha256 |-> TRUE, bytes |-> password]
    ELSE [sha256 |-> FALSE, bytes |-> password \o [k \in 1..(BlockSize - Len(password)) |-> 0]]

\* deriveKey: pbkdf2.Key(password, salt, e.iterations, KeySize, sha256.New),
\* PBKDF2 with HMAC-SHA256 keyed by the password
deriveKey(password, salt) == [pw |-> HmacKey(password), salt |-> salt]

\* gcm.Seal(nonce, nonce, plaintext, nil): the nonce, then the plaintext
\* encrypted under key and nonce with the tag
Seal(key, nonce, plaintext) ==
    [len |-> NonceSize + Len(plaintext) + TagSize, nonce |-> nonce, key |-> key,
     plaintext |-> plaintext, intact |-> TRUE]

\* bytes a caller of Decrypt can make of a ciphertext: cut below nonce and
\* tag, and with a byte after the nonce changed
Truncated(c) == [len |-> NonceSize + TagSize - 1]
Tampered(c) == [c EXCEPT !.intact = FALSE]

\* gcm.Open(nil, nonce, ciphertextData, nil) succeeds under the key and
\* nonce the data was sealed with
CanOpen(key, c) == c.intact /\ c.key = key

\* what rand.Read can fill a slice of the given size with; crypto/rand is
\* taken to return no value twice
RandRead(size) == {<<size, k>> : k \in 1..MaxRand} \ rnd

\* mutant of generateSalt: one salt for the service
generateSaltFixed == {<<SaltSize, 1>>}

\* generateSalt: make([]byte, SaltSize), rand.Read(salt)
generateSalt == RandRead(SaltSize)

EncryptReturn(p, pw, err, encrypted, salt) ==
    [plaintext |-> p, password |-> pw, err |-> err, encrypted |-> encrypted, salt |-> salt]

NoDecrypt ==
    [encrypted |-> EmptyStr, salt |-> EmptyStr, password |-> <<>>, err |-> "none", plaintext |-> ""]

CryptoInit ==
    /\ rnd = {}
    /\ enc = <<>>
    /\ dec = NoDecrypt

\* EncryptionService.Encrypt(plaintext, password)
Encrypt(p, pw) ==
    /\ Len(enc) < MaxEncrypts
    /\ IF p = ""
         THEN /\ enc' = Append(enc, EncryptReturn(p, pw, "plaintext cannot be empty", EmptyStr, EmptyStr))
              /\ UNCHANGED rnd
       ELSE IF pw = <<>>
         THEN /\ enc' = Append(enc, EncryptReturn(p, pw, "password cannot be empty", EmptyStr, EmptyStr))
              /\ UNCHANGED rnd
       ELSE \/ /\ enc' = Append(enc, EncryptReturn(p, pw, "failed to generate salt", EmptyStr, EmptyStr))
               /\ UNCHANGED rnd
            \/ \E salt \in generateSalt :
                 \/ /\ enc' = Append(enc, EncryptReturn(p, pw, "failed to generate nonce",
                                                        EmptyStr, EmptyStr))
                    /\ rnd' = rnd \cup {salt}
                 \/ \E nonce \in RandRead(NonceSize) :
                      /\ enc' = Append(enc, EncryptReturn(p, pw, ErrNone,
                                                          Str64(Seal(deriveKey(pw, salt), nonce, p)),
                                                          Str64(salt)))
                      /\ rnd' = rnd \cup {salt, nonce}
    /\ UNCHANGED <<now, sessions, heap, wlock, rlock, nextID, th, hist, svcVars, falVars, dec>>

\* the strings Decrypt is called with: what Encrypt returned, what a caller
\* made of it, the empty string and a text that is no base64
EncryptedInputs ==
    {EmptyStr, BadStr}
      \cup UNION {{enc[i].encrypted, Str64(Truncated(enc[i].encrypted.bytes)),
                   Str64(Tampered(enc[i].encrypted.bytes))}
                    : i \in {k \in DOMAIN enc : enc[k].err = ErrNone}}

SaltInputs == {EmptyStr, BadStr} \cup {enc[i].salt : i \in {k \in DOMAIN enc : enc[k].err = ErrNone}}

\* what Decrypt returns: the error and the plaintext
DecryptResult(encrypted, salt, password) ==
    IF encrypted.kind = "empty" THEN <<"encrypted data cannot be empty", "">>
    ELSE IF salt.kind = "empty" THEN <<"salt cannot be empty", "">>
    ELSE IF password = <<>> THEN <<"password cannot be empty", "">>
    ELSE IF encrypted.kind = "bad" THEN <<"failed to decode encrypted data", "">>
    ELSE IF salt.kind = "bad" THEN <<"failed to decode salt", "">>
    ELSE IF encrypted.bytes.len < NonceSize + TagSize THEN <<"ciphertext too short", "">>
    ELSE IF ~CanOpen(deriveKey(password, salt.bytes), encrypted.bytes) THEN <<"failed to decrypt", "">>
    ELSE <<ErrNone, encrypted.bytes.plaintext>>

\* EncryptionService.Decrypt(encrypted, salt, password), called once
Decrypt(encrypted, salt, password) ==
    /\ dec = NoDecrypt
    /\ dec' = [encrypted |-> encrypted, salt |-> salt, password |-> password,
               err |-> DecryptResult(encrypted, salt, password)[1],
               plaintext |-> DecryptResult(encrypted, salt, password)[2]]
    /\ UNCHANGED <<now, sessions, heap, wlock, rlock, nextID, th, hist, svcVars, falVars, rnd, enc>>

\* ------------------------------------------------------ fal: the model registry
\* the keys of SupportedModels
SupportedModels == {"flux/schnell", "hidream/hidream-i1-dev", "hidream/hidream-i1-fast"}

\* ModelInfo.CostPerImage, in thousandths
CostPerImage(m) == IF m = "hidream/hidream-i1-dev" THEN 4 ELSE 3

\* values of a parameter map: an int, a float64 (v, or v + 1/2 when not
\* whole) or a string
IntVal(n) == [kind |-> "int", v |-> n, whole |-> TRUE, s |-> ""]
FloatVal(n, w) == [kind |-> "float64", v |-> n, whole |-> w, s |-> ""]
StrVal(x) == [kind |-> "string", v |-> 0, whole |-> TRUE, s |-> x]
BoolVal(b) == [kind |-> "bool", v |-> 0, whole |-> TRUE, s |-> IF b THEN "true" ELSE "false"]

\* the ends of int, math.MaxInt and math.MinInt, with 16 bits standing for
\* the 64 of the type
MaxInt == 32767
MinInt == -32768

\* float64(i): exact, but for the ints next to MaxInt, which round up to
\* MaxInt + 1
Float64(i) == IF i = MaxInt THEN MaxInt + 1 ELSE i

\* int(f): the value without its fraction when an int can hold it; when not,
\* the result depends on the implementation (MinInt, or the nearer end of
\* int)
IntOf(val) ==
    IF val.v >= MinInt /\ val.v <= MaxInt
      THEN {IF val.whole \/ val.v >= 0 THEN val.v ELSE val.v + 1}
      ELSE {MinInt, IF val.v > MaxInt THEN MaxInt ELSE MinInt}

\* a parameter map is the set of its <<key, value>> pairs; nil is the empty map
NoParams == {}
Keys(params) == {kv[1] : kv \in params}
Lookup(params, k) == (CHOOSE kv \in params : kv[1] = k)[2]

\* an object value, map[string]interface{}: the set of its pairs
ObjVal(props) == [kind |-> "object", v |-> 0, whole |-> TRUE, s |-> "", props |-> props]

\* a Parameter: Type, Min and Max (range is <<Min, Max>>, or <<>> when both
\* are nil) and Options
Param(type, range, options) == [type |-> type, range |-> range, options |-> options]

Presets == {"square_hd", "square", "portrait_4_3", "portrait_16_9", "landscape_4_3", "landscape_16_9"}

\* ModelInfo.Parameters of the supported models
Schema(m) ==
    {<<"image_size", Param("object", <<>>, Presets)>>,
     <<"num_images", Param("integer", <<1, 4>>, {})>>,
     <<"guidance_scale",
       Param("float", IF m = "hidream/hidream-i1-fast" THEN <<1, 15>> ELSE <<1, 20>>, {})>>,
     <<"num_inference_steps",
       Param("integer",
             CASE m = "hidream/hidream-i1-dev" -> <<10, 100>>
               [] m = "hidream/hidream-i1-fast" -> <<4, 20>>
               [] OTHER -> <<1, 50>>, {})>>,
     <<"seed", Param("integer", <<>>, {})>>}

\* the ints the test for an integer can end with: the value of an int, and
\* int(f) of a float64 with f == float64(int(f))
Wholes(val) ==
    IF val.kind = "int" THEN {val.v}
    ELSE IF val.kind = "float64" THEN {i \in IntOf(val) : val.whole /\ Float64(i) = val.v}
    ELSE {}

\* what that test can give: ErrNone, the error, or either of them when
\* int(f) depends on the implementation
WholeErrors(val) ==
    (IF Wholes(val) # {} THEN {ErrNone} ELSE {})
      \cup (IF \/ val.kind \notin {"int", "float64"}
               \/ val.kind = "float64" /\ \E i \in IntOf(val) : ~(val.whole /\ Float64(i) = val.v)
              THEN {"invalid_parameter_type"} ELSE {})

\* twice numValue of the range validation: the value of an int or a
\* float64, and 0 for every other type
Twice(val) ==
    IF val.kind \in {"int", "float64"} THEN 2 * val.v + (IF val.whole THEN 0 ELSE 1) ELSE 0

\* the type validation, for one key: what the switch on param.Type can end in
TypeErrors(key, par, val) ==
    CASE par.type = "integer" -> WholeErrors(val)
      [] par.type = "float" ->
            {IF val.kind \in {"int", "float64"} THEN ErrNone ELSE "invalid_parameter_type"}
      [] par.type = "string" -> {IF val.kind = "string" THEN ErrNone ELSE "invalid_parameter_type"}
      [] par.type = "object" /\ key = "image_size" ->
            IF val.kind = "string"
              THEN {IF par.options # {} /\ val.s \notin par.options
                      THEN "invalid_parameter_value" ELSE ErrNone}
            ELSE IF val.kind = "object"
              THEN (IF {"width", "height"} \ Keys(val.props) # {} THEN {"invalid_parameter_value"}
                    ELSE (WholeErrors(Lookup(val.props, "width")) \ {ErrNone})
                           \cup (IF ErrNone \in WholeErrors(Lookup(val.props, "width"))
                                   THEN WholeErrors(Lookup(val.props, "height")) ELSE {}))
            ELSE {"invalid_parameter_type"}
      [] par.type = "object" /\ key # "image_size" ->
            {IF val.kind = "object" THEN ErrNone ELSE "invalid_parameter_type"}
      [] OTHER -> {ErrNone}

\* mutant of RangeError: Max is not looked at
RangeErrorNoMax(par, val) ==
    IF par.range = <<>> THEN ErrNone
    ELSE IF Twice(val) < 2 * par.range[1] THEN "parameter_out_of_range"
    ELSE ErrNone

\* the range validation: numValue < *param.Min, numValue > *param.Max, on
\* the value as it was passed
RangeError(par, val) ==
    IF par.range = <<>> THEN ErrNone
    ELSE IF Twice(val) < 2 * par.range[1] \/ Twice(val) > 2 * par.range[2]
      THEN "parameter_out_of_range"
    ELSE ErrNone

\* the options validation, which leaves image_size to the type validation
OptionsError(key, par, val) ==
    IF par.options = {} \/ key = "image_size" THEN ErrNone
    ELSE IF val.kind # "string" THEN "invalid_parameter_type"
    ELSE IF val.s \notin par.options THEN "invalid_parameter_value"
    ELSE ErrNone

\* what the body of the loop of ValidateParameters can end in for one key
\* of the schema: the error of the first of the three validations that
\* fails, or ErrNone
ParamErrors(key, par, val) ==
    (TypeErrors(key, par, val) \ {ErrNone})
      \cup (IF ErrNone \notin TypeErrors(key, par, val) THEN {}
            ELSE IF RangeError(par, val) # ErrNone THEN {RangeError(par, val)}
            ELSE {OptionsError(key, par, val)})

\* the errors the loop of ValidateParameters can return: the range over the
\* map visits the keys in no fixed order and returns at the first bad one;
\* keys outside the schema are skipped
ValidateErrors(m, params) ==
    UNION {ParamErrors(k, Lookup(Schema(m), k), Lookup(params, k))
             : k \in Keys(params) \cap Keys(Schema(m))} \ {ErrNone}

\* ValidateParameters can return nil
CanAccept(m, params) ==
    \A k \in Keys(params) \cap Keys(Schema(m)) :
        ErrNone \in ParamErrors(k, Lookup(Schema(m), k), Lookup(params, k))

\* a float64 that passed for an integer, as the int the code stores in its
\* place
AsInt(val) == IF val.kind = "float64" THEN IntVal(CHOOSE i \in Wholes(val) : TRUE) ELSE val

\* the value ValidateParameters leaves under a key of the schema when it
\* returns nil: int(f) for an "integer", float64(i) for a "float", and the
\* width and height of an image_size object as ints
CoercedValue(key, par, val) ==
    CASE par.type = "integer" -> AsInt(val)
      [] par.type = "float" -> IF val.kind = "int" THEN FloatVal(val.v, TRUE) ELSE val
      [] par.type = "object" /\ key = "image_size" /\ val.kind = "object" ->
            ObjVal({IF kv[1] \in {"width", "height"} THEN <<kv[1], AsInt(kv[2])>> ELSE kv
                      : kv \in val.props})
      [] OTHER -> val

\* mutant of Coerced: the keys outside the schema are dropped
CoercedKnown(m, params) ==
    {<<kv[1], CoercedValue(kv[1], Lookup(Schema(m), kv[1]), kv[2])>>
        : kv \in {x \in params : x[1] \in Keys(Schema(m))}}

\* the map after ValidateParameters returned nil
Coerced(m, params) ==
    {IF kv[1] \in Keys(Schema(m))
       THEN <<kv[1], CoercedValue(kv[1], Lookup(Schema(m), kv[1]), kv[2])>> ELSE kv
        : kv \in params}

\* the map with the values of the keys in done stored back
StoredBack(m, params, done) ==
    {IF kv[1] \in done
       THEN <<kv[1], CoercedValue(kv[1], Lookup(Schema(m), kv[1]), kv[2])>> ELSE kv
        : kv \in params}

\* an image_size object whose width passed and was stored back as an int
\* before its height failed
WidthStored(val) ==
    ObjVal({IF kv[1] = "width" THEN <<kv[1], AsInt(kv[2])>> ELSE kv : kv \in val.props})

\* the maps ValidateParameters can leave when it returns err: the keys the
\* loop visited before the bad one are stored back, and so is the bad one
\* when its type validation passed
FailedMaps(m, params, err) ==
    UNION {LET par == Lookup(Schema(m), k)
               val == Lookup(params, k)
               typed == err \notin TypeErrors(k, par, val)
               half == /\ ~typed
                       /\ k = "image_size" /\ val.kind = "object"
                       /\ {"width", "height"} \subseteq Keys(val.props)
                       /\ Wholes(Lookup(val.props, "width")) # {}
           IN  {StoredBack(m, IF half THEN (params \ {<<k, val>>}) \cup {<<k, WidthStored(val)>>}
                                      ELSE params,
                           before \cup (IF typed THEN {k} ELSE {}))
                  : before \in SUBSET {j \in (Keys(params) \cap Keys(Schema(m))) \ {k} :
                                         ErrNone \in ParamErrors(j, Lookup(Schema(m), j),
                                                                 Lookup(params, j))}}
             : k \in {j \in Keys(params) \cap Keys(Schema(m)) :
                        err \in ParamErrors(j, Lookup(Schema(m), j), Lookup(params, j))}}

\* the values around the ends of a range, as int and as float64 (x and x + 1/2)
BorderValues(range) ==
    UNION {{IntVal(x), FloatVal(x, TRUE), FloatVal(x, FALSE)} :
             x \in {range[1] - 1, range[1], range[2], range[2] + 1}}

\* the parameter maps a caller of ValidateParameters passes for model m
ParamMaps(m) ==
    UNION {{{<<kv[1], val>>} : val \in BorderValues(kv[2].range)} :
             kv \in {e \in Schema(m) : e[2].range # <<>>}}
      \cup {{<<"image_size", val>>} :
              val \in {StrVal("square"), StrVal("huge"), StrVal(""), IntVal(1),
                       ObjVal({<<"width", IntVal(512)>>, <<"height", FloatVal(512, TRUE)>>}),
                       ObjVal({<<"width", IntVal(512)>>}), ObjVal({}), BoolVal(TRUE),
                       ObjVal({<<"width", IntVal(512)>>, <<"height", IntVal(768)>>,
                               <<"unit", StrVal("px")>>}),
                       ObjVal({<<"width", FloatVal(512, TRUE)>>, <<"height", FloatVal(512, FALSE)>>}),
                       ObjVal({<<"width", StrVal("512")>>, <<"height", IntVal(512)>>}),
                       ObjVal({<<"width", FloatVal(MaxInt + 1, TRUE)>>, <<"height", IntVal(512)>>}),
                       ObjVal({<<"width", IntVal(512)>>, <<"height", FloatVal(MaxInt + 1, TRUE)>>})}}
      \cup {{<<"seed", val>>} :
              val \in {FloatVal(7, TRUE), FloatVal(-7, FALSE), StrVal("7"), BoolVal(TRUE),
                       IntVal(MaxInt), FloatVal(MaxInt + 1, TRUE), FloatVal(MaxInt + 1025, TRUE),
                       FloatVal(MinInt, TRUE)}}
      \cup {{<<"guidance_scale", val>>} : val \in {StrVal("high"), BoolVal(TRUE), ObjVal({})}}
      \cup {{<<"num_images", StrVal("two")>>}}
      \cup {{<<"style", StrVal("vivid")>>, <<"num_images", val>>} :
              val \in {FloatVal(2, TRUE), IntVal(9)}}
      \cup {NoParams, {<<"seed", IntVal(-7)>>}, {<<"style", StrVal("vivid")>>},
            {<<"num_images", IntVal(4)>>, <<"guidance_scale", IntVal(0)>>}}

\* ------------------------------------------------------ fal: model identifiers
\* the identifier strings a caller can pass
ModelIDs ==
    {"", "fal-ai/", "fal-ai", "fal-ai/fal-ai/", "flux", "flux/schnell", "fal-ai/flux",
     "fal-ai/flux/schnell", "fal-ai/flux/schnell/", "FAL-AI/flux/schnell", "sdxl",
     "hidream/hidream-i1-dev", "hidream/hidream-i1-fast", "fal-ai/hidream",
     "fal-ai/hidream/hidream-i1-dev", "fal-ai/hidream/hidream-i1-fast"}

\* len(modelID) >= 7 && modelID[:7] == "fal-ai/"
HasFALPrefix(modelID) == Len(modelID) >= 7 /\ SubSeq(modelID, 1, 7) = "fal-ai/"

\* mutant of convertToFALModelID: the prefix is added whatever the identifier
convertToFALModelIDAlways(modelID) == "fal-ai/" \o modelID

convertToFALModelID(modelID) ==
    IF HasFALPrefix(modelID) THEN modelID ELSE "fal-ai/" \o modelID

getBaseModelID(fullModelID) ==
    CASE fullModelID = "flux/schnell" -> "fal-ai/flux"
      [] fullModelID \in {"hidream/hidream-i1-dev", "hidream/hidream-i1-fast"} -> "fal-ai/hidream"
      [] fullModelID = "fal-ai/flux/schnell" -> "fal-ai/flux"
      [] fullModelID \in {"fal-ai/hidream/hidream-i1-dev", "fal-ai/hidream/hidream-i1-fast"} ->
            "fal-ai/hidream"
      [] OTHER -> fullModelID

\* a caller holds an identifier
Identify(x) ==
    /\ ident = <<>>
    /\ ident' = <<[f |-> "caller", v |-> x]>>
    /\ UNCHANGED <<now, sessions, heap, wlock, rlock, nextID, th, hist, svcVars, client, wire, cryptoVars>>

\* the identifier is passed through convertToFALModelID
ApplyConvert ==
    /\ ident # <<>> /\ Len(ident) <= MaxApply
    /\ ident' = Append(ident, [f |-> "convertToFALModelID",
                               v |-> convertToFALModelID(ident[Len(ident)].v)])
    /\ UNCHANGED <<now, sessions, heap, wlock, rlock, nextID, th, hist, svcVars, client, wire, cryptoVars>>

\* the identifier is passed through getBaseModelID
ApplyBase ==
    /\ ident # <<>> /\ Len(ident) <= MaxApply
    /\ ident' = Append(ident, [f |-> "getBaseModelID", v |-> getBaseModelID(ident[Len(ident)].v)])
    /\ UNCHANGED <<now, sessions, heap, wlock, rlock, nextID, th, hist, svcVars, client, wire, cryptoVars>>

\* ------------------------------------------------------ fal.Client
NoReq == ""

\* status of the client when CheckStatusWithModel returned no StatusResponse
NoStatus == "nil"

\* the client between calls.  model, prompt and params are the arguments (for
\* CheckStatus, PollForCompletion and CancelGeneration model is the modelID
\* the method sets), job the model the job of id was submitted with, id the
\* request id, status and images the last StatusResponse (its Status and the
\* images of its Result, 0 for none), ctxDone the state of the context, res
\* and cost what the call returned; queued is history, the answer the queue
\* gave to the submit.
NoCall ==
    [op |-> "none", pc |-> "idle", model |-> "", prompt |-> "", params |-> NoParams,
     job |-> "", id |-> NoReq, status |-> NoStatus, images |-> 0, ctxDone |-> FALSE,
     res |-> "none", cost |-> 0, queued |-> [http |-> "none", id |-> NoReq],
     given |-> NoParams]

FalInit ==
    /\ client = NoCall
    /\ wire = <<>>
    /\ ident = <<>>

\* the models a caller names: the keys of the registry, their forms with the
\* prefix of the queue, and one the registry does not have
CallerModels == SupportedModels \cup {"fal-ai/" \o m : m \in SupportedModels} \cup {"sdxl"}

\* the GenerationRequests a caller passes
Requests ==
    {[model |-> m, prompt |-> "a cat", params |-> ps] :
        m \in CallerModels,
        ps \in {NoParams, {<<"num_images", IntVal(2)>>}, {<<"num_images", IntVal(5)>>},
                {<<"num_images", FloatVal(2, TRUE)>>}, {<<"num_images", StrVal("two")>>},
                {<<"style", StrVal("vivid")>>}, {<<"prompt", StrVal("a dog")>>},
                {<<"style", StrVal("vivid")>>, <<"num_images", FloatVal(2, TRUE)>>}}}

\* the request ids the external queue hands out or a caller passes
ReqIDs == {"req-1", "req-2"}

\* what c.httpClient.Do and the reading of the response can end in, short of
\* a 200 with a body that parses: the error each gives
HttpError(h) ==
    CASE h = "transport" -> "failed to send request"
      [] h = "unreadable" -> "failed to read response"
      [] h = "refused" -> "fal_error"
      [] h = "non200" -> "http_error"
      [] h = "malformed" -> "failed to parse response"

HttpFailures == {"transport", "unreadable", "refused", "non200", "malformed"}

\* the answers of the queue to a submit: a failure, or 200 with a
\* QueueResponse (request_id may be missing from the body)
SubmitResponses ==
    {[http |-> h, id |-> NoReq] : h \in HttpFailures}
        \cup {[http |-> "ok", id |-> i] : i \in ReqIDs \cup {NoReq}}

\* the Status strings of a StatusResponse: the five constants, one more, and
\* the empty string of a body without the field
Statuses == {"queued", "processing", "completed", "failed", "cancelled", "paused", ""}

\* the answers of the queue to a status request: a failure, or 200 with a
\* StatusResponse: its Status, the images of its Result (0: no Result) and
\* whether it has an Error
StatusResponses ==
    {[http |-> h, status |-> NoStatus, images |-> 0, error |-> FALSE] : h \in HttpFailures}
        \cup {[http |-> "ok", status |-> "completed", images |-> n, error |-> FALSE] : n \in 0..2}
        \cup {[http |-> "ok", status |-> "failed", images |-> 0, error |-> e] : e \in BOOLEAN}
        \cup {[http |-> "ok", status |-> x, images |-> 0, error |-> FALSE] :
                x \in Statuses \ {"completed", "failed"}}

\* the answers of the queue to a cancel: the body of a 200 is not read
CancelResponses == {"ok", "transport", "refused", "non200"}

Sent(kind) == Cardinality({k \in DOMAIN wire : wire[k].kind = kind})

\* requestBody of SubmitGeneration: "prompt", then every parameter under its
\* own key, a later assignment to a key replacing the earlier one
Body(prompt, params) ==
    params \cup (IF "prompt" \in Keys(params) THEN {} ELSE {<<"prompt", StrVal(prompt)>>})

\* the requests on the wire: url is the path below c.baseURL
SubmitRequest(c) ==
    [kind |-> "submit", model |-> c.model, id |-> NoReq,
     url |-> convertToFALModelID(c.model), body |-> Body(c.prompt, c.params)]

StatusRequest(c) ==
    [kind |-> "status", model |-> c.model, id |-> c.id,
     url |-> getBaseModelID(convertToFALModelID(c.model)) \o "/requests/" \o c.id \o "/status",
     body |-> NoParams]

CancelRequest(c) ==
    [kind |-> "cancel", model |-> c.model, id |-> c.id,
     url |-> getBaseModelID(convertToFALModelID(c.model)) \o "/requests/" \o c.id \o "/cancel",
     body |-> NoParams]

ClientReturn(c, r) == [c EXCEPT !.pc = "done", !.res = r]

SubmitGenerationCall(req) ==
    /\ client.pc = "idle"
    /\ client' = [NoCall EXCEPT !.op = "SubmitGeneration", !.pc = "submit_check",
                                !.model = req.model, !.prompt = req.prompt,
                                !.params = req.params, !.job = req.model,
                                !.given = req.params]
    /\ UNCHANGED <<now, sessions, heap, wlock, rlock, nextID, th, hist, svcVars, wire, ident, cryptoVars>>

GenerateImageCall(req) ==
    /\ client.pc = "idle"
    /\ client' = [NoCall EXCEPT !.op = "GenerateImage", !.pc = "submit_check",
                                !.model = req.model, !.prompt = req.prompt,
                                !.params = req.params, !.job = req.model,
                                !.given = req.params]
    /\ UNCHANGED <<now, sessions, heap, wlock, rlock, nextID, th, hist, svcVars, wire, ident, cryptoVars>>

\* CheckStatus(requestID), for a job submitted with model job
CheckStatusCall(job, id) ==
    /\ client.pc = "idle"
    /\ client' = [NoCall EXCEPT !.op = "CheckStatus", !.pc = "status_do",
                                !.model = "flux/schnell", !.job = job, !.id = id]
    /\ UNCHANGED <<now, sessions, heap, wlock, rlock, nextID, th, hist, svcVars, wire, ident, cryptoVars>>

CheckStatusWithModelCall(m, id) ==
    /\ client.pc = "idle"
    /\ client' = [NoCall EXCEPT !.op = "CheckStatusWithModel", !.pc = "status_do",
                                !.model = m, !.job = m, !.id = id]
    /\ UNCHANGED <<now, sessions, heap, wlock, rlock, nextID, th, hist, svcVars, wire, ident, cryptoVars>>

\* PollForCompletion(requestID), for a job submitted with model job
PollForCompletionCall(job, id) ==
    /\ client.pc = "idle"
    /\ client' = [NoCall EXCEPT !.op = "PollForCompletion", !.pc = "poll_select",
                                !.model = "flux/schnell", !.job = job, !.id = id]
    /\ UNCHANGED <<now, sessions, heap, wlock, rlock, nextID, th, hist, svcVars, wire, ident, cryptoVars>>

\* PollForCompletionWithModel: context.WithTimeout, time.NewTicker
PollForCompletionWithModelCall(m, id) ==
    /\ client.pc = "idle"
    /\ client' = [NoCall EXCEPT !.op = "PollForCompletionWithModel", !.pc = "poll_select",
                                !.model = m, !.job = m, !.id = id]
    /\ UNCHANGED <<now, sessions, heap, wlock, rlock, nextID, th, hist, svcVars, wire, ident, cryptoVars>>

\* CancelGeneration(requestID), for a job submitted with model job
CancelGenerationCall(job, id) ==
    /\ client.pc = "idle"
    /\ client' = [NoCall EXCEPT !.op = "CancelGeneration", !.pc = "cancel_do",
                                !.model = "flux/schnell", !.job = job, !.id = id]
    /\ UNCHANGED <<now, sessions, heap, wlock, rlock, nextID, th, hist, svcVars, wire, ident, cryptoVars>>

\* ModelInfo.ValidateParameters called on its own: the error it returns and
\* the map as the loop left it, or nil and the map with the values it stored
\* back
ValidateParameters(m, ps) ==
    /\ client.pc = "idle"
    /\ \/ \E err \in ValidateErrors(m, ps) : \E left \in FailedMaps(m, ps, err) :
            client' = [NoCall EXCEPT !.op = "ValidateParameters", !.pc = "done", !.model = m,
                                     !.given = ps, !.params = left, !.res = err]
       \/ /\ CanAccept(m, ps)
          /\ client' = [NoCall EXCEPT !.op = "ValidateParameters", !.pc = "done", !.model = m,
                                      !.given = ps, !.params = Coerced(m, ps), !.res = ErrNone]
    /\ UNCHANGED <<now, sessions, heap, wlock, rlock, nextID, th, hist, svcVars, wire, ident, cryptoVars>>

\* the deadline of the context passes, or the caller cancels it
CtxDone ==
    /\ client.pc \notin {"idle", "done"}
    /\ ~client.ctxDone
    /\ client' = [client EXCEPT !.ctxDone = TRUE]
    /\ UNCHANGED <<now, sessions, heap, wlock, rlock, nextID, th, hist, svcVars, wire, ident, cryptoVars>>

\* mutant of SubmitCheck: the parameters are not validated
SubmitCheckUnvalidated ==
    /\ client.pc = "submit_check"
    /\ client' = IF client.model \notin SupportedModels
                   THEN ClientReturn(client, "invalid_model")
                   ELSE [client EXCEPT !.pc = "submit_do"]
    /\ UNCHANGED <<now, sessions, heap, wlock, rlock, nextID, th, hist, svcVars, wire, ident, cryptoVars>>

\* SubmitGeneration: GetModel(req.Model), model.ValidateParameters(req.Parameters)
SubmitCheck ==
    /\ client.pc = "submit_check"
    /\ IF client.model \notin SupportedModels
         THEN client' = ClientReturn(client, "invalid_model")
       ELSE \/ \E err \in ValidateErrors(client.model, client.params) :
                 \E left \in FailedMaps(client.model, client.params, err) :
                    client' = ClientReturn([client EXCEPT !.params = left], err)
            \/ /\ CanAccept(client.model, client.params)
               /\ client' = [client EXCEPT !.pc = "submit_do",
                                           !.params = Coerced(client.model, client.params)]
    /\ UNCHANGED <<now, sessions, heap, wlock, rlock, nextID, th, hist, svcVars, wire, ident, cryptoVars>>

\* mutant of AfterSubmit: GenerateImage polls whatever the submit returned
AfterSubmitHeedless(c, r) ==
    IF c.op = "SubmitGeneration"
      THEN (IF r.http # "ok" THEN ClientReturn(c, HttpError(r.http))
            ELSE ClientReturn([c EXCEPT !.id = r.id], ErrNone))
      ELSE [c EXCEPT !.pc = "poll_select", !.id = r.id]

\* where SubmitGeneration returns to: its caller, or GenerateImage, which
\* returns an error as it is and otherwise polls for queueResp.RequestID
AfterSubmit(c, r) ==
    IF r.http # "ok" THEN ClientReturn(c, HttpError(r.http))
    ELSE IF c.op = "SubmitGeneration" THEN ClientReturn([c EXCEPT !.id = r.id], ErrNone)
    ELSE [c EXCEPT !.pc = "poll_select", !.id = r.id]

\* mutant of SubmitDo: a request that could not be sent is sent again
SubmitDoRetrying ==
    /\ client.pc = "submit_do"
    /\ wire' = Append(wire, SubmitRequest(client))
    /\ \E r \in SubmitResponses :
         client' = IF r.http = "transport" THEN client
                   ELSE AfterSubmit([client EXCEPT !.queued = r], r)
    /\ UNCHANGED <<now, sessions, heap, wlock, rlock, nextID, th, hist, svcVars, ident, cryptoVars>>

\* SubmitGeneration: the POST to the queue, c.httpClient.Do, and the reading
\* of its response.  Do sends nothing for a context that is done.
SubmitDo ==
    /\ client.pc = "submit_do"
    /\ IF client.ctxDone
         THEN /\ wire' = wire
              /\ client' = ClientReturn(client, HttpError("transport"))
         ELSE /\ wire' = Append(wire, SubmitRequest(client))
              /\ \E r \in SubmitResponses : client' = AfterSubmit([client EXCEPT !.queued = r], r)
    /\ UNCHANGED <<now, sessions, heap, wlock, rlock, nextID, th, hist, svcVars, ident, cryptoVars>>

\* mutant of PollTimeout: the job is cancelled when the wait is given up
PollTimeoutCancelling ==
    /\ client.pc = "poll_select"
    /\ client.ctxDone
    /\ client' = ClientReturn(client, "timeout")
    /\ wire' = Append(wire, CancelRequest(client))
    /\ UNCHANGED <<now, sessions, heap, wlock, rlock, nextID, th, hist, svcVars, ident, cryptoVars>>

\* select: case <-ctx.Done(): return the timeout error
PollTimeout ==
    /\ client.pc = "poll_select"
    /\ client.ctxDone
    /\ client' = ClientReturn(client, "timeout")
    /\ UNCHANGED <<now, sessions, heap, wlock, rlock, nextID, th, hist, svcVars, wire, ident, cryptoVars>>

\* select: case <-ticker.C
PollTick ==
    /\ client.pc = "poll_select"
    /\ Sent("status") < MaxPolls
    /\ client' = [client EXCEPT !.pc = "poll_do"]
    /\ UNCHANGED <<now, sessions, heap, wlock, rlock, nextID, th, hist, svcVars, wire, ident, cryptoVars>>

\* GenerateImage: numImages, from req.Parameters["num_images"]
NumImages(params) ==
    IF "num_images" \notin Keys(params) THEN 1
    ELSE IF Lookup(params, "num_images").kind = "string" THEN 1
    ELSE Lookup(params, "num_images").v

\* where PollForCompletionWithModel returns a result to: its caller, or
\* GenerateImage, which sets result.Cost = model.CostPerImage * numImages
AfterPoll(c) ==
    IF c.op = "GenerateImage"
      THEN [ClientReturn(c, ErrNone) EXCEPT !.cost = CostPerImage(c.model) * NumImages(c.params)]
      ELSE ClientReturn(c, ErrNone)

\* mutant of Switched: a status that is not known is polled again
SwitchedLenient(c, r) ==
    CASE r.status = "completed" ->
            IF r.images = 0 THEN ClientReturn(c, "missing_result") ELSE AfterPoll(c)
      [] r.status = "failed" ->
            ClientReturn(c, IF r.error THEN "job_error" ELSE "generation_failed")
      [] r.status = "cancelled" -> ClientReturn(c, "generation_cancelled")
      [] OTHER -> [c EXCEPT !.pc = "poll_select"]

\* the switch on status.Status
Switched(c, r) ==
    CASE r.status = "completed" ->
            IF r.images = 0 THEN ClientReturn(c, "missing_result") ELSE AfterPoll(c)
      [] r.status = "failed" ->
            ClientReturn(c, IF r.error THEN "job_error" ELSE "generation_failed")
      [] r.status = "cancelled" -> ClientReturn(c, "generation_cancelled")
      [] r.status \in {"queued", "processing"} -> [c EXCEPT !.pc = "poll_select"]
      [] OTHER -> ClientReturn(c, "unknown_status")

\* mutant of PollDo: the status is asked for whatever the state of the context
PollDoDeaf ==
    /\ client.pc = "poll_do"
    /\ wire' = Append(wire, StatusRequest(client))
    /\ \E r \in StatusResponses :
         client' = IF r.http # "ok"
                     THEN ClientReturn([client EXCEPT !.status = NoStatus, !.images = 0],
                                       HttpError(r.http))
                     ELSE Switched([client EXCEPT !.status = r.status, !.images = r.images], r)
    /\ UNCHANGED <<now, sessions, heap, wlock, rlock, nextID, th, hist, svcVars, ident, cryptoVars>>

\* CheckStatusWithModel: the GET of the status, and the switch on its answer.
\* Do sends nothing for a context that is done.
PollDo ==
    /\ client.pc = "poll_do"
    /\ IF client.ctxDone
         THEN /\ wire' = wire
              /\ client' = ClientReturn(client, HttpError("transport"))
         ELSE /\ wire' = Append(wire, StatusRequest(client))
              /\ \E r \in StatusResponses :
                   client' = IF r.http # "ok"
                               THEN ClientReturn([client EXCEPT !.status = NoStatus, !.images = 0],
                                                 HttpError(r.http))
                               ELSE Switched([client EXCEPT !.status = r.status,
                                                            !.images = r.images], r)
    /\ UNCHANGED <<now, sessions, heap, wlock, rlock, nextID, th, hist, svcVars, ident, cryptoVars>>

\* CheckStatus and CheckStatusWithModel called on their own: one GET
StatusDo ==
    /\ client.pc = "status_do"
    /\ IF client.ctxDone
         THEN /\ wire' = wire
              /\ client' = ClientReturn(client, HttpError("transport"))
         ELSE /\ wire' = Append(wire, StatusRequest(client))
              /\ \E r \in StatusResponses :
                   client' = IF r.http # "ok"
                               THEN ClientReturn(client, HttpError(r.http))
                               ELSE ClientReturn([client EXCEPT !.status = r.status,
                                                                !.images = r.images], ErrNone)
    /\ UNCHANGED <<now, sessions, heap, wlock, rlock, nextID, th, hist, svcVars, ident, cryptoVars>>

\* CancelGeneration: the PUT to the queue
CancelDo ==
    /\ client.pc = "cancel_do"
    /\ IF client.ctxDone
         THEN /\ wire' = wire
              /\ client' = ClientReturn(client, HttpError("transport"))
         ELSE /\ wire' = Append(wire, CancelRequest(client))
              /\ \E h \in CancelResponses :
                   client' = ClientReturn(client, IF h = "ok" THEN ErrNone ELSE HttpError(h))
    /\ UNCHANGED <<now, sessions, heap, wlock, rlock, nextID, th, hist, svcVars, ident, cryptoVars>>

\* ------------------------------------------------------ specifications
\* the stores a run of n Create calls at instant 0 leaves, n <= MaxInit
InitHeaps ==
    UNION {[1..n -> {Session(NoID, u, Cred(u), 0, timeout) : u \in Users}] : n \in 0..MaxInit}

Init ==
    /\ now = 0
    /\ \E h \in InitHeaps :
         /\ heap = [i \in DOMAIN h |-> [h[i] EXCEPT !.ID = i]]
         /\ sessions = DOMAIN h
         /\ nextID = Cardinality(DOMAIN h) + 1
    /\ wlock = NoThread
    /\ rlock = {}
    /\ th = [t \in Threads |-> Fresh]
    /\ renewed = {}
    /\ purged = {}
    /\ created = Cardinality(sessions)
    /\ removed = 0
    /\ SvcInit
    /\ FalInit
    /\ CryptoInit

\* the session IDs a caller can present; 0 is the empty string
IDs == 0..MaxInit

\* the steps of the store's methods
StoreStep(t) ==
    \/ CreateNew(t)
    \/ CreateExpires(t)
    \/ CreateStore(t)
    \/ GetLookup(t)
    \/ GetCheck(t)
    \/ DeleteLock(t)
    \/ DeleteClear(t)
    \/ DeleteUserSessionsLock(t)
    \/ DeleteUserSessionsClear(t)

\* concurrent callers of the store's methods
Next ==
    \/ Tick
    \/ \E t \in Threads, in \in CreateInputs : CreateCall(t, in)
    \/ \E t \in Threads, id \in IDs : GetCall(t, id)
    \/ \E t \in Threads, id \in IDs : DeleteCall(t, id)
    \/ \E t \in Threads, id \in IDs : GetFALTokenCall(t, id)
    \/ \E t \in Threads, u \in Users \cup {NoUser} : GetUserSessionCall(t, u)
    \/ \E t \in Threads, u \in Users \cup {NoUser} : DeleteUserSessionsCall(t, u)
    \/ \E t \in Threads, id \in IDs : ExtendSessionCall(t, id)
    \/ \E t \in Threads : CleanupCall(t)
    \/ \E t \in Threads : StatsCall(t)
    \/ \E t \in Threads : ClearCall(t)
    \/ \E t \in Threads : StoreStep(t)
    \/ \E t \in Threads : TokenRead(t)
    \/ \E t \in Threads : GetUserSessionRLock(t)
    \/ \E t \in Threads : GetUserSessionScan(t)
    \/ \E t \in Threads : CleanupLock(t)
    \/ \E t \in Threads : CleanupScan(t)
    \/ \E t \in Threads : StatsRLock(t)
    \/ \E t \in Threads : StatsCount(t)
    \/ \E t \in Threads : ExtendSessionLock(t)
    \/ \E t \in Threads : ExtendSessionWrite(t)
    \/ \E t \in Threads : ClearLock(t)
    \/ \E t \in Threads : ClearAll(t)

Spec == Init /\ [][Next]_vars

\* a store found some time after two Create calls: the session of u1 has
\* expired, the session of u2 is live
InitStale ==
    /\ now = MaxTime - 1
    /\ heap = <<Session(1, "u1", Cred("u1"), 0, timeout),
                Session(2, "u2", Cred("u2"), MaxTime - 1, MaxTime - 1 + timeout)>>
    /\ sessions = {1, 2}
    /\ nextID = 3
    /\ wlock = NoThread
    /\ rlock = {}
    /\ th = [t \in Threads |-> Fresh]
    /\ renewed = {}
    /\ purged = {}
    /\ created = 2
    /\ removed = 0
    /\ SvcInit
    /\ FalInit
    /\ CryptoInit

\* the steps a goroutine takes inside its call of a method of the store
Step(t) ==
    \/ StoreStep(t)
    \/ TokenRead(t)
    \/ GetUserSessionRLock(t)
    \/ GetUserSessionScan(t)
    \/ CleanupLock(t)
    \/ CleanupScan(t)
    \/ StatsRLock(t)
    \/ StatsCount(t)
    \/ ExtendSessionLock(t)
    \/ ExtendSessionWrite(t)
    \/ ClearLock(t)
    \/ ClearAll(t)

\* the scheduler runs every goroutine that can take a step, and a goroutine
\* waiting in Lock or RLock gets the mutex once it stays free
SpecFair == InitStale /\ [][Next]_vars /\ \A t \in Threads : WF_vars(Step(t))

\* concurrent requests to the two unlock handlers
NextUnlock ==
    \/ Tick
    \/ \E t \in Threads, u \in Users, d \in BOOLEAN : CreateSessionCall(t, u, d)
    \/ \E t \in Threads, u \in Users, d \in BOOLEAN : CustomLoginCall(t, u, d)
    \/ \E t \in Threads : StoreStep(t)

\* the store as NewSessionStore returns it
InitUnlock ==
    /\ now = 0
    /\ heap = [i \in {} |-> Session(NoID, NoUser, NoToken, 0, 0)]
    /\ sessions = {}
    /\ nextID = 1
    /\ wlock = NoThread
    /\ rlock = {}
    /\ th = [t \in Threads |-> Fresh]
    /\ renewed = {}
    /\ purged = {}
    /\ created = 0
    /\ removed = 0
    /\ SvcInit
    /\ FalInit
    /\ CryptoInit

SpecUnlock == InitUnlock /\ [][NextUnlock]_vars

\* the handlers that take a session id, next to the calls that remove and
\* renew sessions
NextHandlers ==
    \/ Tick
    \/ \E t \in Threads, u \in Users \cup {NoUser}, id \in IDs : HandlerDeleteSessionCall(t, u, id)
    \/ \E t \in Threads, u \in Users \cup {NoUser}, id \in IDs : HandlerGenerateImageCall(t, u, id)
    \/ \E t \in Threads, id \in IDs : GetFALTokenCall(t, id)
    \/ \E t \in Threads, in \in CreateInputs : CreateCall(t, in)
    \/ \E t \in Threads, id \in IDs : DeleteCall(t, id)
    \/ \E t \in Threads, u \in Users : DeleteUserSessionsCall(t, u)
    \/ \E t \in Threads, id \in IDs : ExtendSessionCall(t, id)
    \/ \E t \in Threads : CleanupCall(t)
    \/ \E t \in Threads : StoreStep(t)
    \/ \E t \in Threads : OwnerCheck(t)
    \/ \E t \in Threads : GenToken(t)
    \/ \E t \in Threads : TokenRead(t)
    \/ \E t \in Threads : CleanupLock(t)
    \/ \E t \in Threads : CleanupScan(t)
    \/ \E t \in Threads : ExtendSessionLock(t)
    \/ \E t \in Threads : ExtendSessionWrite(t)

SpecHandlers == Init /\ [][NextHandlers]_vars

\* the CleanupService at work on a store that holds sessions and has no
\* other caller
NextReaper ==
    \/ Tick
    \/ \E g \in Routines : Start(g)
    \/ Stop
    \/ \E g \in Routines : ForceCleanup(g)
    \/ \E g \in Routines : RunTicker(g)
    \/ \E g \in Routines : TickerFire(g)
    \/ \E g \in Routines : RunTick(g)
    \/ \E g \in Routines : RunStop(g)
    \/ \E g \in Routines : PerformStatsBefore(g)
    \/ \E g \in Routines : PerformCleanup(g)
    \/ \E g \in Routines : PerformStatsAfter(g)

SpecReaper == Init /\ [][NextReaper]_vars

\* the scheduler runs every goroutine that can step, the ticker keeps
\* ticking, and a select with several ready cases picks each of them in turn
FairReaper ==
    \A g \in Routines :
        /\ WF_vars(RunTicker(g))
        /\ WF_vars(TickerFire(g))
        /\ SF_vars(RunTick(g))
        /\ SF_vars(RunStop(g))
        /\ WF_vars(PerformStatsBefore(g))
        /\ WF_vars(PerformCleanup(g))
        /\ WF_vars(PerformStatsAfter(g))

SpecReaperFair == SpecReaper /\ FairReaper

\* one call of the fal.Client and the answers of the external queue
NextFAL ==
    \/ \E req \in Requests : SubmitGenerationCall(req)
    \/ \E req \in Requests : GenerateImageCall(req)
    \/ \E m \in SupportedModels, id \in ReqIDs : CheckStatusCall(m, id)
    \/ \E m \in CallerModels, id \in ReqIDs : CheckStatusWithModelCall(m, id)
    \/ \E m \in SupportedModels, id \in ReqIDs : PollForCompletionCall(m, id)
    \/ \E m \in CallerModels, id \in ReqIDs : PollForCompletionWithModelCall(m, id)
    \/ \E m \in SupportedModels, id \in ReqIDs : CancelGenerationCall(m, id)
    \/ \E m \in SupportedModels : \E ps \in ParamMaps(m) : ValidateParameters(m, ps)
    \/ CtxDone
    \/ SubmitCheck
    \/ SubmitDo
    \/ PollTimeout
    \/ PollTick
    \/ PollDo
    \/ StatusDo
    \/ CancelDo

SpecFAL == InitUnlock /\ [][NextFAL]_vars

\* the two normalizations applied, in any order, to an identifier
NextNormalize ==
    \/ \E x \in ModelIDs : Identify(x)
    \/ ApplyConvert
    \/ ApplyBase

SpecNormalize == InitUnlock /\ [][NextNormalize]_vars

\* the calls of the EncryptionService
NextCrypto ==
    \/ \E p \in Plaintexts, pw \in Passwords : Encrypt(p, pw)
    \/ \E e \in EncryptedInputs, s \in SaltInputs, pw \in Passwords : Decrypt(e, s, pw)

SpecCrypto == InitUnlock /\ [][NextCrypto]_vars

\* ====================================================== the claims
Quiescent == \A t \in Threads : th[t].pc \in {"new", "done"}

Returned(t, op, r) == th[t].op = op /\ th[t].pc = "done" /\ th[t].res = r

\* ------------------------------------------------------ C1
\* C1: at most one live session per user: once every unlock flow
\* (CreateSession, CustomLogin) has returned, the store holds at most one
\* session of each user.
C1_OneSessionPerUser ==
    Quiescent => \A u \in Users : Cardinality(OwnedBy(u)) <= 1

\* ------------------------------------------------------ C2
\* no ExtendSession has written the session or is about to
NeverRenewed(s) == s \notin renewed /\ \A w \in Threads : ~WritesNext(w, s, "ExpiresAt")

\* Get found the session and returned it; c is the instant of the call
GetSucceeded(t) == Returned(t, "Get", ErrNone)

\* Get found the session expired: it is deleting it or has returned the error
GetExpired(t) ==
    /\ th[t].op = "Get"
    /\ \/ th[t].pc \in {"delete_lock", "delete_clear"}
       \/ th[t].pc = "done" /\ th[t].res = ErrExpired

\* C2 as claimed: for a session created at c and never renewed, Get at c+t
\* succeeds for every t < timeout and fails with the expired error for every
\* t >= timeout, t = timeout included.
C2_GetExpiresAtTTL ==
    \A t \in Threads :
        (th[t].s # NoID /\ NeverRenewed(th[t].s)) =>
            /\ GetSucceeded(t) => th[t].c - heap[th[t].s].CreatedAt < timeout
            /\ GetExpired(t) => th[t].c - heap[th[t].s].CreatedAt >= timeout

\* C2 amended: for a session never renewed, Get succeeds at every instant up
\* to and including ExpiresAt, so for every t <= timeout after CreatedAt, and
\* fails with the expired error exactly at the instants after ExpiresAt.
C2_GetExpiresAfterTTL ==
    \A t \in Threads :
        (th[t].s # NoID /\ NeverRenewed(th[t].s)) =>
            /\ GetSucceeded(t) => th[t].c <= heap[th[t].s].ExpiresAt
            /\ GetExpired(t) =>
                 /\ th[t].c > heap[th[t].s].ExpiresAt
                 /\ th[t].c - heap[th[t].s].CreatedAt > timeout

\* a Get that succeeded exactly timeout after the creation, and one that failed
C2_Witness ==
    /\ \E t \in Threads :
         /\ GetSucceeded(t) /\ NeverRenewed(th[t].s)
         /\ th[t].c = heap[th[t].s].CreatedAt + timeout
    /\ \E t \in Threads :
         /\ GetExpired(t) /\ th[t].pc = "done" /\ NeverRenewed(th[t].s)

\* ------------------------------------------------------ C3
\* C3: a Get of a present, expired id returns the expired error, which is not
\* the not-found error of an absent id, and removes the entry: afterwards
\* Stats does not count the session and a further Get of the id returns
\* not-found.
C3_ExpiredGetRemoves ==
    /\ ErrExpired # ErrNotFound
    /\ \A t \in Threads :
         /\ Returned(t, "Get", ErrNotFound) => th[t].s = NoID
         /\ (At(t, "get_lookup") /\ th[t].op = "Get" /\ th[t].id \notin sessions)
                => Looked(t).res = ErrNotFound
         /\ (At(t, "get_check") /\ th[t].op = "Get" /\ ~Racing(t, th[t].s, "ExpiresAt")
                /\ IsExpired(heap[th[t].s].ExpiresAt))
                => \A x \in IsExpiredRead(t, th[t].s) : Checked(t, x).pc = "delete_lock"
         /\ Returned(t, "Get", ErrExpired) =>
                /\ th[t].s = th[t].id
                /\ th[t].id \notin sessions
                /\ StatsAt(now)[1] = Cardinality(sessions \ {th[t].id})
                /\ \A g \in Threads :
                     (At(g, "get_lookup") /\ th[g].id = th[t].id) => Looked(g).pc = "done"

\* one Get returned the expired error and a later Get of the same id not-found
C3_Witness ==
    \E t, g \in Threads :
        /\ Returned(t, "Get", ErrExpired)
        /\ Returned(g, "Get", ErrNotFound)
        /\ th[g].id = th[t].id
        /\ th[t].id \in DOMAIN heap

\* ------------------------------------------------------ C4
\* the goroutines about to write the table or a session in it
Writers == {t \in Threads : th[t].pc \in {"delete_clear", "dus_clear", "cleanup_scan", "clear_all", "extend_write"}}

Fields == {"ExpiresAt", "FALToken"}

\* C4: writes to the session table exclude each other and every read of
\* session data: no goroutine reads a session's ExpiresAt or FALToken in Get,
\* GetUserSession, Stats or GetFALToken while another goroutine writes it.
C4_NoRacingRead ==
    /\ Cardinality(Writers) <= 1
    /\ \A r, w \in Threads, s \in DOMAIN heap, f \in Fields :
         r # w => ~(ReadsNext(r, s, f) /\ WritesNext(w, s, f))

\* ------------------------------------------------------ C5
\* C5: every Stats() result has ActiveSessions + ExpiredSessions =
\* TotalSessions, under any interleaving of Create, Get and Delete, and at a
\* quiescent point TotalSessions is the number of sessions created and not
\* removed.
C5_StatsConsistent ==
    /\ \A t \in Threads :
         Returned(t, "Stats", ErrNone) => th[t].stats[2] + th[t].stats[3] = th[t].stats[1]
    /\ \A t \in Threads :
         At(t, "stats_count") =>
            /\ StatsAt(now)[2] + StatsAt(now)[3] = StatsAt(now)[1]
            /\ StatsAt(now)[1] = created - removed
    /\ Quiescent => StatsAt(now)[1] = created - removed

\* a Stats that counted an active and an expired session, next to a Create
\* and a removal
C5_Witness ==
    \E t \in Threads :
        /\ Returned(t, "Stats", ErrNone)
        /\ th[t].stats[2] >= 1 /\ th[t].stats[3] >= 1
        /\ Quiescent

\* ------------------------------------------------------ C6
\* C6 as claimed: every stored session has ExpiresAt - CreatedAt <= timeout,
\* also after ExtendSession calls.
C6_LifetimeWithinTTL ==
    \A i \in sessions : heap[i].ExpiresAt - heap[i].CreatedAt <= timeout

\* C6 amended: every stored session has ExpiresAt <= now + timeout: no more
\* than the TTL lies between the present and its expiry.  ExpiresAt -
\* CreatedAt is never below the TTL and exceeds it after an ExtendSession.
C6_RemainingWithinTTL ==
    \A i \in sessions :
        /\ heap[i].ExpiresAt <= now + timeout
        /\ heap[i].ExpiresAt - heap[i].CreatedAt >= timeout

\* a stored session that ExtendSession has moved past CreatedAt + timeout
C6_Witness ==
    \E i \in sessions :
        /\ i \in renewed
        /\ heap[i].ExpiresAt - heap[i].CreatedAt > timeout

\* ------------------------------------------------------ C7
\* C7: a session that Delete, DeleteUserSessions, Cleanup or Clear removed
\* from the table has an empty FALToken: no removed object keeps a secret.
C7_RemovedIsCleared ==
    \A i \in DOMAIN heap : i \notin sessions => heap[i].FALToken = NoToken

\* a removed object next to a stored one, after a deleting call returned
C7_Witness ==
    /\ \E i \in DOMAIN heap : i \notin sessions /\ heap[i].FALToken = NoToken
    /\ \E i \in sessions : heap[i].FALToken # NoToken
    /\ \E t \in Threads :
         th[t].pc = "done" /\ th[t].op \in {"Delete", "DeleteUserSessions", "Cleanup", "Clear"}

\* ------------------------------------------------------ C8
\* t's step is the sweep of Cleanup
Sweeps(t) == th[t].pc = "cleanup_scan" /\ th'[t].pc = "done"

\* C8 as claimed: after Cleanup() at the instant now no session with
\* ExpiresAt <= now remains, and every session with ExpiresAt > now is still
\* stored with its fields unchanged.
C8_CleanupRemovesAtNow ==
    [][\A t \in Threads : Sweeps(t) =>
          /\ \A i \in sessions' : heap'[i].ExpiresAt > now
          /\ \A i \in sessions : heap[i].ExpiresAt > now => i \in sessions' /\ heap'[i] = heap[i]
      ]_vars

\* C8 amended: after Cleanup() at the instant now no session with
\* ExpiresAt < now remains, and every session with ExpiresAt >= now (one with
\* ExpiresAt = now included) is still stored with its fields unchanged.
C8_CleanupRemovesBeforeNow ==
    [][\A t \in Threads : Sweeps(t) =>
          /\ \A i \in sessions' : heap'[i].ExpiresAt >= now
          /\ \A i \in sessions : heap[i].ExpiresAt >= now => i \in sessions' /\ heap'[i] = heap[i]
      ]_vars

\* a Cleanup returned from a sweep that kept a session expiring at that
\* very instant and removed another
C8_Witness ==
    \E t \in Threads :
        /\ Returned(t, "Cleanup", ErrNone)
        /\ \E i \in sessions : heap[i].ExpiresAt = th[t].c /\ heap[i].FALToken # NoToken
        /\ \E i \in DOMAIN heap : i \notin sessions /\ heap[i].ExpiresAt < th[t].c

\* ------------------------------------------------------ C9
\* C9: ExtendSession(id) sets the ExpiresAt of a present, non-expired session
\* to now + timeout; it fails with the already-expired error on an expired
\* session and with not-found on an absent id, and both failures leave the
\* store unchanged.
C9_ExtendSession ==
    [][\A t \in Threads :
          /\ (th[t].pc = "extend_lock" /\ th'[t].pc # "extend_lock") =>
                IF th[t].id \notin sessions
                  THEN th'[t].pc = "done" /\ th'[t].res = ErrNotFound
                       /\ UNCHANGED <<sessions, heap>>
                ELSE IF now > heap[th[t].id].ExpiresAt
                  THEN th'[t].pc = "done" /\ th'[t].res = ErrAlreadyExpired
                       /\ UNCHANGED <<sessions, heap>>
                ELSE th'[t].pc = "extend_write" /\ UNCHANGED <<sessions, heap>>
          /\ (th[t].pc = "extend_write" /\ th'[t].pc # "extend_write") =>
                /\ th'[t].pc = "done" /\ th'[t].res = ErrNone
                /\ heap'[th[t].id].ExpiresAt = now + timeout
                /\ UNCHANGED sessions
      ]_vars

\* one ExtendSession succeeded and one failed on an expired session that is
\* still stored
C9_Witness ==
    \E t, g \in Threads :
        /\ Returned(t, "ExtendSession", ErrNone)
        /\ heap[th[t].id].ExpiresAt = th[t].c + timeout
        /\ Returned(g, "ExtendSession", ErrAlreadyExpired)
        /\ th[g].id \in sessions

\* ------------------------------------------------------ C10
\* C10: DeleteUserSessions(owner) followed, with no Create for the owner in
\* between, by GetUserSession(owner) fails with not-found, however many
\* sessions the owner held, and the sessions of other owners stay untouched.
C10_DeleteUserThenGet ==
    [][\A t \in Threads :
          /\ (th[t].pc = "gus_scan" /\ th'[t].pc # "gus_scan" /\ th[t].user \in purged) =>
                th'[t].res = ErrNoActive
          /\ (th[t].pc = "dus_clear" /\ th'[t].pc # "dus_clear") =>
                /\ \A i \in sessions' : heap'[i].UserID # th[t].user
                /\ \A i \in sessions :
                     heap[i].UserID # th[t].user => i \in sessions' /\ heap'[i] = heap[i]
      ]_vars

\* DeleteUserSessions removed two sessions of an owner and a later
\* GetUserSession for that owner found none
C10_Witness ==
    \E t, g \in Threads :
        /\ Returned(t, "DeleteUserSessions", ErrNone)
        /\ Returned(g, "GetUserSession", ErrNoActive)
        /\ th[g].user = th[t].user
        /\ th[t].user \in purged
        /\ Cardinality({i \in DOMAIN heap : i \notin sessions /\ heap[i].UserID = th[t].user}) >= 2

\* ------------------------------------------------------ C11
\* C11: Create never evicts: Create(u, b) stores a session under a new id and
\* leaves every stored session, the earlier ones of u included, as it was;
\* each is then found by a lookup of its own id and carries the secret it was
\* created with.
C11_CreateNeverEvicts ==
    [][\A t \in Threads :
          /\ (th[t].pc = "create_store" /\ th'[t].pc # "create_store") =>
                /\ th[t].id \notin DOMAIN heap
                /\ sessions' = sessions \cup {th[t].id}
                /\ \A i \in sessions : heap'[i] = heap[i]
                /\ heap'[th[t].id].UserID = th[t].user
                /\ heap'[th[t].id].FALToken = th[t].tok
          /\ (th[t].pc = "get_lookup" /\ th'[t].pc # "get_lookup" /\ th[t].id \in sessions) =>
                th'[t].pc = "get_check" /\ th'[t].s = th[t].id
          /\ (th[t].pc = "token_read" /\ th'[t].pc # "token_read"
                /\ ~Racing(t, th[t].s, "FALToken") /\ heap[th[t].s].FALToken # NoToken) =>
                th'[t].res = ErrNone /\ th'[t].tok = heap[th[t].s].FALToken
      ]_vars

\* a user holds two live sessions with different secrets, the second stored
\* by a Create call, and GetFALToken of the second id returned its secret
C11_Witness ==
    \E i, j \in sessions :
        /\ i # j
        /\ heap[i].UserID = heap[j].UserID
        /\ heap[i].FALToken # NoToken /\ heap[j].FALToken # NoToken
        /\ heap[i].FALToken # heap[j].FALToken
        /\ ~IsExpired(heap[i].ExpiresAt) /\ ~IsExpired(heap[j].ExpiresAt)
        /\ \E t, g \in Threads :
             /\ Returned(t, "Create", ErrNone) /\ th[t].id = j
             /\ Returned(g, "GetFALToken", ErrNone) /\ th[g].id = j
             /\ th[g].tok = heap[j].FALToken

\* ------------------------------------------------------ C12
\* C12: Delete is idempotent: Delete of an id that is not stored returns no
\* error and changes nothing; Delete of a stored id removes that entry only,
\* and a removed id stays absent, so a second Delete(id) meets the absent
\* case and leaves the store as the first left it.  (An id is a non-empty
\* string: the empty string is refused as an argument.)
C12_DeleteIdempotent ==
    [][/\ \A t \in Threads :
            th[t].op = "Delete" =>
              /\ (th[t].pc = "delete_lock" /\ th'[t].pc # "delete_lock" /\ th[t].id \notin sessions) =>
                    /\ th'[t].pc = "done" /\ th'[t].res = ErrNone
                    /\ UNCHANGED <<sessions, heap>>
              /\ (th[t].pc = "delete_clear" /\ th'[t].pc # "delete_clear") =>
                    /\ th'[t].pc = "done" /\ th'[t].res = ErrNone
                    /\ sessions' = sessions \ {th[t].id}
                    /\ \A i \in sessions \ {th[t].id} : heap'[i] = heap[i]
       /\ \A i \in DOMAIN heap : i \notin sessions => i \notin sessions'
      ]_vars

\* Delete(id) returned without error twice and removed one session
C12_Witness ==
    \E t, g \in Threads :
        /\ t # g
        /\ Returned(t, "Delete", ErrNone) /\ Returned(g, "Delete", ErrNone)
        /\ th[t].id = th[g].id
        /\ th[t].id \in DOMAIN heap /\ th[t].id \notin sessions
        /\ removed = 1

\* ------------------------------------------------------ C13
\* C13: the lifecycle of a session is monotone, Active -> Expired -> Deleted:
\* a stored session the clock has passed (now > ExpiresAt) stays expired for
\* as long as it is stored, so no later Get, GetUserSession or ExtendSession
\* on it succeeds, and an id removed from the store is never stored again.
C13_LifecycleMonotone ==
    [][/\ \A i \in sessions :
            (After(now, heap[i].ExpiresAt) /\ i \in sessions') => After(now', heap'[i].ExpiresAt)
       /\ \A i \in DOMAIN heap : i \notin sessions => i \notin sessions'
      ]_vars

\* ------------------------------------------------------ C14
\* the unlock flows
Unlocks == {"CreateSession", "CustomLogin"}

\* C14: a session is created only by a successful unlock: a CreateSession or
\* CustomLogin whose Decrypt fails ends at once and leaves the store as it
\* was (no session created, none of the user's sessions deleted), and every
\* change of the store is a step of a flow that holds a decrypted token.
C14_FailedDecryptLeavesStore ==
    [][/\ \A t \in Threads :
            (th[t].pc = "new" /\ th'[t].pc # "new" /\ th'[t].tok = NoToken) =>
              /\ th'[t].pc = "done" /\ th'[t].res = ErrInvalidPassword
              /\ UNCHANGED <<sessions, heap>>
       /\ (sessions' # sessions \/ heap' # heap) =>
            \E t \in Threads :
              th'[t] # th[t] /\ th[t].op \in Unlocks /\ th[t].tok = Cred(th[t].user)
      ]_vars

\* an unlock with the wrong password returned while the session that a
\* successful unlock created for the same user is still stored
C14_Witness ==
    \E t, g \in Threads :
        /\ th[t].op \in Unlocks /\ th[t].pc = "done" /\ th[t].res = ErrInvalidPassword
        /\ th[g].op \in Unlocks /\ th[g].pc = "done" /\ th[g].res = ErrNone
        /\ th[g].user = th[t].user
        /\ \E i \in sessions : heap[i].UserID = th[t].user /\ heap[i].FALToken = Cred(th[t].user)

\* ------------------------------------------------------ C15
\* C15: the reaper never runs concurrently with itself: whatever Start, Stop
\* and ForceCleanup calls and ticks there were, at most one goroutine is
\* inside performCleanup.
C15_SingleSweep ==
    Cardinality({g \in Routines : Sweeping(g)}) <= 1

\* ------------------------------------------------------ C16
\* C16: the reaper tolerates being stopped and restarted: no Start or Stop
\* call fails, and whenever the last of these calls is a Start a run loop is
\* at work.
C16_StopStartTolerated ==
    /\ ~panicked
    /\ lastCall = "Start" => \E g \in Routines : Looping(g)

\* ------------------------------------------------------ C17
\* the service is started: a run loop is at work and Stop has not been called
Started == stopChan = "open" /\ \E g \in Routines : Looping(g)

\* the ids of the sessions the store holds at the start
AllIDs == 1..MaxInit

\* C17: while the service is started and its ticker keeps ticking, every
\* stored session that has expired is eventually removed, with no Get
\* issued for it; after Stop every run loop eventually returns, and a loop
\* that has returned sweeps no more.
C17_ExpiredEventuallySwept ==
    /\ \A i \in AllIDs :
         (Started /\ i \in sessions /\ IsExpired(heap[i].ExpiresAt))
            ~> (i \notin sessions \/ ~Started)
    /\ (stopChan = "closed") ~> (\A g \in Routines : ~Looping(g))
    /\ [][\A g \in Routines : reaper[g].pc = "returned" => reaper'[g] = reaper[g]]_vars

\* a run loop that swept an expired session away has returned after Stop
C17_Witness ==
    /\ stopChan = "closed"
    /\ \E g \in Routines : reaper[g].kind = "run" /\ reaper[g].pc = "returned"
    /\ removed >= 1
    /\ \E i \in DOMAIN heap : i \notin sessions /\ IsExpired(heap[i].ExpiresAt)

\* ------------------------------------------------------ C18
\* the errors of the two checks of SubmitGeneration
CheckErrors ==
    {"invalid_model", "invalid_parameter_type", "invalid_parameter_value", "parameter_out_of_range"}

\* C18: SubmitGeneration (alone or inside GenerateImage) sends nothing when
\* the model is not in the registry or ValidateParameters rejects the
\* parameters, and fails; a request is on the wire only when both checks
\* passed.
C18_NoRequestBeforeChecks ==
    client.op \in {"SubmitGeneration", "GenerateImage"} =>
        /\ (client.model \notin SupportedModels \/ ValidateErrors(client.model, client.params) # {}) =>
              /\ wire = <<>>
              /\ client.pc \in {"submit_check", "done"}
              /\ client.pc = "done" => client.res \in CheckErrors
        /\ (client.pc = "done" /\ client.res \in CheckErrors) => wire = <<>>
        /\ client.pc = "done" =>
              (client.res = "invalid_model" <=> client.model \notin SupportedModels)

\* a submit that failed on an out-of-range parameter and sent nothing
C18_Witness ==
    /\ client.op = "SubmitGeneration" /\ client.pc = "done"
    /\ client.res = "parameter_out_of_range"
    /\ client.model \in SupportedModels
    /\ wire = <<>>

\* ------------------------------------------------------ C19
\* C19: submission is never retried: a call of GenerateImage or
\* SubmitGeneration sends at most one submit request; whatever the answer,
\* the step that sends it leaves the submit, and after a failure the call
\* has returned the error with no other request sent.
C19_SubmitOnce ==
    [][/\ Cardinality({k \in DOMAIN wire' : wire'[k].kind = "submit"}) <= 1
       /\ (client.pc = "submit_do" /\ (wire' # wire \/ client'.pc # "submit_do")) =>
            /\ wire' \in {wire, Append(wire, SubmitRequest(client))}
            /\ wire' = wire => client.ctxDone
            /\ client'.pc \in {"done", "poll_select"}
            /\ client'.pc = "poll_select" => client.op = "GenerateImage" /\ client'.res = "none"
            /\ (client'.pc = "done" /\ client.op = "GenerateImage") => client'.res # ErrNone
      ]_vars

\* GenerateImage returned the error of a submit that could not be sent,
\* with one request on the wire
C19_Witness ==
    /\ client.op = "GenerateImage" /\ client.pc = "done"
    /\ client.res = "failed to send request"
    /\ Len(wire) = 1 /\ wire[1].kind = "submit"

\* ------------------------------------------------------ C20
\* C20: the polling loop reacts to the status it observes: queued and
\* processing lead to another poll and never to a return; completed returns
\* the result, or an error when the result is missing; failed and cancelled
\* return a structured error; any other status string returns the
\* unknown-status error.  Once the call has returned, no further status
\* request is sent.
C20_PollReactsToStatus ==
    [][/\ (client.pc = "poll_do" /\ wire' # wire /\ client'.status # NoStatus) =>
            CASE client'.status \in {"queued", "processing"} ->
                    client'.pc = "poll_select" /\ client'.res = "none"
              [] client'.status = "completed" ->
                    /\ client'.pc = "done"
                    /\ client'.res = (IF client'.images = 0 THEN "missing_result" ELSE ErrNone)
              [] client'.status = "failed" ->
                    client'.pc = "done" /\ client'.res \in {"job_error", "generation_failed"}
              [] client'.status = "cancelled" ->
                    client'.pc = "done" /\ client'.res = "generation_cancelled"
              [] OTHER ->
                    client'.pc = "done" /\ client'.res = "unknown_status"
       /\ client.pc = "done" => wire' = wire
       /\ wire' # wire => client.pc \in {"submit_do", "poll_do", "status_do", "cancel_do"}
      ]_vars

\* a poll that saw the job in progress asked again and returned the
\* unknown-status error for the second answer
C20_Witness ==
    /\ client.pc = "done" /\ client.res = "unknown_status"
    /\ client.status = "paused"
    /\ Sent("status") = 2

PollOps == {"PollForCompletion", "PollForCompletionWithModel"}
Terminal == {"completed", "failed", "cancelled"}

\* C21: polling ends at the deadline: when the context of the loop is done
\* and no terminal status was seen, the call has returned the timeout error
\* (code "timeout"), which no failure of a request to the queue gives.
C21_PollTimesOut ==
    (client.op \in PollOps /\ client.pc = "done" /\ client.ctxDone /\ client.status \notin Terminal) =>
        client.res = "timeout"

\* ------------------------------------------------------ C22
\* C22: a cancel request is sent only by a call of CancelGeneration: a poll
\* that ends by the deadline, by a failed job or by an unknown status, inside
\* GenerateImage or not, leaves no cancel request on the wire.
C22_NoImplicitCancel ==
    \A k \in DOMAIN wire : wire[k].kind = "cancel" => client.op = "CancelGeneration"

\* a poll given up at the deadline after one answer, and nothing but the
\* status request on the wire
C22_Witness ==
    /\ client.op \in PollOps /\ client.pc = "done" /\ client.res = "timeout"
    /\ Len(wire) = 1 /\ wire[1].kind = "status"

\* ------------------------------------------------------ C23
\* C23: once the context is done the polling loop sends no status request
\* any more, the return with the error is open to it at its select without a
\* tick, every step it takes is towards its return, and what it returns is
\* an error.
C23_PollCancellable ==
    [][(client.op \in PollOps /\ client.ctxDone) =>
            /\ wire' = wire
            /\ client.pc = "poll_select" => (ENABLED PollTimeout) /\ client'.pc \in {"poll_select", "poll_do", "done"}
            /\ client.pc = "poll_do" => client'.pc \in {"poll_do", "done"}
            /\ (client.pc # "done" /\ client'.pc = "done") =>
                    client'.res \in {"timeout", "failed to send request"}
      ]_vars

\* the context ended while the job was processing, and the loop returned
\* with the one request it had sent before
C23_Witness ==
    /\ client.op \in PollOps /\ client.pc = "done" /\ client.ctxDone
    /\ client.status = "processing"
    /\ Sent("status") = 1

\* ------------------------------------------------------ C24
\* C24: the cost GenerateImage returns is CostPerImage of the model times the
\* number of images in the result, whatever num_images the request asked for.
C24_CostByImagesReturned ==
    (client.op = "GenerateImage" /\ client.pc = "done" /\ client.res = ErrNone) =>
        client.cost = CostPerImage(client.model) * client.images

\* ------------------------------------------------------ C25
\* C25: GenerateImage is submit, then poll, then cost: a status request
\* follows a submit that the queue answered with success and asks for the id
\* of that answer; a cost is set only on the return of a completed result;
\* after a failed submit no status request is sent; a job that ends failed,
\* cancelled or timed out returns an error and no cost.
C25_SubmitPollCost ==
    client.op = "GenerateImage" =>
        /\ \A k \in DOMAIN wire :
              wire[k].kind = "status" =>
                  /\ k > 1 /\ wire[1].kind = "submit"
                  /\ client.queued.http = "ok"
                  /\ wire[k].id = client.queued.id
        /\ client.queued.http \notin {"none", "ok"} =>
              client.pc = "done" /\ client.res # ErrNone /\ Sent("status") = 0
        /\ client.cost # 0 =>
              /\ client.pc = "done" /\ client.res = ErrNone
              /\ client.status = "completed" /\ client.images > 0
        /\ (client.pc = "done" /\ (client.status \in {"failed", "cancelled"} \/ client.res = "timeout")) =>
              client.res # ErrNone /\ client.cost = 0

\* a job submitted as req-2, polled twice under that id and returned with
\* its cost
C25_Witness ==
    /\ client.op = "GenerateImage" /\ client.pc = "done" /\ client.res = ErrNone
    /\ client.queued.id = "req-2"
    /\ Len(wire) = 3 /\ wire[3].id = "req-2"
    /\ client.cost > 0

\* ------------------------------------------------------ C27
\* str has sub as a substring
Contains(str, sub) ==
    \E i \in 1..(Len(str) - Len(sub) + 1) : SubSeq(str, i, i + Len(sub) - 1) = sub

\* C27: a call that names a supported model m as "fal-ai/" + m builds the
\* URLs the call that names it m builds: its status requests go to the same
\* URL, and where the call with m sends a submit it sends one to the same
\* URL; no URL on the wire has the prefix twice.
C27_SameURLEitherForm ==
    /\ \A k \in DOMAIN wire : ~Contains(wire[k].url, "fal-ai/fal-ai/")
    /\ \A m \in SupportedModels :
          client.model = "fal-ai/" \o m =>
              /\ \A k \in DOMAIN wire :
                    wire[k].kind = "status" => wire[k].url = StatusRequest([client EXCEPT !.model = m]).url
              /\ (/\ client.op \in {"SubmitGeneration", "GenerateImage"}
                  /\ client.pc = "done" /\ ~client.ctxDone
                  /\ ValidateErrors(m, client.params) = {}) =>
                    \E k \in DOMAIN wire :
                        /\ wire[k].kind = "submit"
                        /\ wire[k].url = SubmitRequest([client EXCEPT !.model = m]).url

\* ------------------------------------------------------ C28
\* C28: every status and cancel request for a job submitted with a supported
\* model goes to the coarse form of that model, getBaseModelID of it,
\* whichever of CheckStatus, CheckStatusWithModel, the polling calls and
\* CancelGeneration sends it.
C28_CoarseFormOfJob ==
    \A k \in DOMAIN wire :
        (wire[k].kind \in {"status", "cancel"} /\ client.job # "sdxl") =>
            wire[k].url = getBaseModelID(client.job) \o "/requests/" \o client.id
                            \o (IF wire[k].kind = "status" THEN "/status" ELSE "/cancel")

\* ------------------------------------------------------ C29
\* C29: the body of the submit request is flat and faithful: its keys are
\* "prompt" and the keys of the validated parameters, one value each, every
\* parameter key other than "prompt" has its validated value, and "prompt"
\* has the Prompt of the request, also when the parameters have a key
\* "prompt" of their own.
C29_FlatFaithfulBody ==
    \A k \in DOMAIN wire :
        wire[k].kind = "submit" =>
            /\ Keys(wire[k].body) = {"prompt"} \cup Keys(client.params)
            /\ Cardinality(wire[k].body) = Cardinality(Keys(wire[k].body))
            /\ \A kv \in client.params : kv[1] # "prompt" => kv \in wire[k].body
            /\ Lookup(wire[k].body, "prompt") = StrVal(client.prompt)

\* ------------------------------------------------------ C30
\* C30: for every parameter with bounds ValidateParameters rejects a value
\* below Min or above Max and accepts Min and Max themselves, and for a
\* parameter with options it rejects a string that is not one of them.
C30_BoundsAndOptions ==
    (client.op = "ValidateParameters" /\ client.pc = "done") =>
        \A kv \in client.params : \A e \in Schema(client.model) :
            e[1] = kv[1] =>
                /\ (e[2].range # <<>> /\ kv[2].kind \in {"int", "float64"}) =>
                      /\ (\/ Twice(kv[2]) < 2 * e[2].range[1]
                          \/ Twice(kv[2]) > 2 * e[2].range[2]) => client.res # ErrNone
                      /\ (/\ Cardinality(client.params) = 1
                          /\ kv[2].whole
                          /\ kv[2].v \in {e[2].range[1], e[2].range[2]}) => client.res = ErrNone
                /\ (e[2].options # {} /\ kv[2].kind = "string" /\ kv[2].s \notin e[2].options) =>
                      client.res # ErrNone

\* the upper bound of num_inference_steps of hidream-i1-dev, accepted
C30_Witness ==
    /\ client.op = "ValidateParameters" /\ client.pc = "done" /\ client.res = ErrNone
    /\ client.model = "hidream/hidream-i1-dev"
    /\ client.params = {<<"num_inference_steps", IntVal(100)>>}

\* ------------------------------------------------------ C31
\* C31: ValidateParameters accepts a float without a fractional part for an
\* integer parameter and stores it back as that integer, accepts an integer
\* for a float parameter and stores it back as a float, rejects a float with
\* a fractional part for an integer parameter, and rejects a value that is
\* no number for a numeric parameter as a type mismatch.
C31_NumericCoercion ==
    (client.op = "ValidateParameters" /\ client.pc = "done" /\ Cardinality(client.given) = 1) =>
        \A kv \in client.given : \A e \in Schema(client.model) :
            e[1] = kv[1] =>
                /\ (/\ e[2].type = "integer" /\ kv[2].kind = "float64" /\ kv[2].whole
                    /\ RangeError(e[2], kv[2]) = ErrNone) =>
                      /\ client.res = ErrNone
                      /\ client.params = {<<kv[1], IntVal(kv[2].v)>>}
                /\ (/\ e[2].type = "float" /\ kv[2].kind = "int"
                    /\ RangeError(e[2], kv[2]) = ErrNone) =>
                      /\ client.res = ErrNone
                      /\ client.params = {<<kv[1], FloatVal(kv[2].v, TRUE)>>}
                /\ (e[2].type = "integer" /\ kv[2].kind = "float64" /\ ~kv[2].whole) =>
                      client.res # ErrNone
                /\ (e[2].type \in {"integer", "float"} /\ kv[2].kind \notin {"int", "float64"}) =>
                      client.res = "invalid_parameter_type"

\* ------------------------------------------------------ C32
\* C32: for image_size a string is accepted exactly when it is one of the
\* presets, an object exactly when it has both width and height and each is
\* an integer or a float without a fractional part, and a value of any other
\* type is rejected.
C32_ImageSizeForms ==
    (/\ client.op = "ValidateParameters" /\ client.pc = "done"
     /\ Keys(client.given) = {"image_size"}) =>
        LET val == Lookup(client.given, "image_size")
        IN  (client.res = ErrNone) <=>
              \/ val.kind = "string" /\ val.s \in Presets
              \/ /\ val.kind = "object"
                 /\ {"width", "height"} \subseteq Keys(val.props)
                 /\ \A d \in {"width", "height"} :
                       LET x == Lookup(val.props, d)
                       IN  x.kind = "int" \/ (x.kind = "float64" /\ x.whole)

\* ------------------------------------------------------ C33
\* C33: a key that the schema of the model does not have never makes
\* ValidateParameters fail (the call ends as it does for the map without
\* such keys), keeps the value it was passed with, and is in the body of the
\* submit request with that value.
C33_UnknownKeysPass ==
    LET unknown == {kv \in client.given : kv[1] \notin Keys(Schema(client.model))}
        known == client.given \ unknown
    IN  /\ (client.op = "ValidateParameters" /\ client.pc = "done") =>
              /\ unknown \subseteq client.params
              /\ client.res \in ValidateErrors(client.model, known)
                                  \cup (IF CanAccept(client.model, known) THEN {ErrNone} ELSE {})
              /\ known = {} => client.res = ErrNone
        /\ \A k \in DOMAIN wire :
              wire[k].kind = "submit" => unknown \subseteq wire[k].body

\* a submit request sent with a key outside the schema next to one that was
\* stored back
C33_Witness ==
    /\ client.given = {<<"style", StrVal("vivid")>>, <<"num_images", FloatVal(2, TRUE)>>}
    /\ \E k \in DOMAIN wire :
          /\ wire[k].kind = "submit"
          /\ wire[k].body = {<<"prompt", StrVal("a cat")>>, <<"style", StrVal("vivid")>>,
                             <<"num_images", IntVal(2)>>}

\* ------------------------------------------------------ C34
\* C34: for a non-empty plaintext and non-empty passwords, Decrypt of what
\* Encrypt returned gives the plaintext back when the password is the one
\* of the Encrypt, and fails with the authentication error, returning no
\* plaintext, when it is another one.
C34_RoundTripAndWrongPassword ==
    \A i \in DOMAIN enc :
        (/\ enc[i].err = ErrNone
         /\ dec.encrypted = enc[i].encrypted /\ dec.salt = enc[i].salt
         /\ dec.password # <<>>) =>
            IF dec.password = enc[i].password
              THEN dec.err = ErrNone /\ dec.plaintext = enc[i].plaintext
              ELSE dec.err = "failed to decrypt" /\ dec.plaintext = ""

C36_GetUserSessionReadOnly ==
    [][\A t \in Threads :
          /\ (th'[t] # th[t] /\ th'[t].op = "GetUserSession") =>
                sessions' = sessions /\ heap' = heap
          /\ (At(t, "gus_scan") /\ th'[t].pc = "done") =>
                LET live == {i \in sessions : heap[i].UserID = th[t].user /\ now <= heap[i].ExpiresAt}
                IN  /\ th'[t].res \in {ErrNone, ErrNoActive}
                    /\ th'[t].res = ErrNone => th'[t].s \in live
                    /\ th'[t].res = ErrNoActive <=> live = {}]_vars

\* GetUserSession returned a session of a user who also has an expired one,
\* which is still stored
C36_Witness ==
    \E t \in Threads :
        /\ Returned(t, "GetUserSession", ErrNone)
        /\ th[t].s \in sessions
        /\ \E i \in sessions \ {th[t].s} :
              heap[i].UserID = th[t].user /\ now > heap[i].ExpiresAt

\* ------------------------------------------------------ C37
\* C37: as long as a session is stored its ID, UserID, CreatedAt and FALToken
\* keep their values; a step changes a stored session only as the write of
\* an ExtendSession on that session's id, which changes its ExpiresAt alone
\* and leaves every other session and the table as they are.
C37_OnlyExpiryChanges ==
    [][\A i \in sessions \cap sessions' :
          /\ heap'[i].ID = heap[i].ID /\ heap'[i].UserID = heap[i].UserID
          /\ heap'[i].CreatedAt = heap[i].CreatedAt /\ heap'[i].FALToken = heap[i].FALToken
          /\ heap'[i] # heap[i] =>
                /\ \E t \in Threads :
                      th[t].op = "ExtendSession" /\ At(t, "extend_write") /\ th[t].id = i
                /\ sessions' = sessions
                /\ \A j \in DOMAIN heap : j # i => heap'[j] = heap[j]]_vars

\* an ExtendSession moved the ExpiresAt of one of two stored sessions
C37_Witness ==
    \E i \in renewed \cap sessions :
        /\ heap[i].ExpiresAt > heap[i].CreatedAt + timeout
        /\ heap[i].FALToken # NoToken
        /\ sessions \ {i} # {}

\* ------------------------------------------------------ C38
\* C38: the session a successful Get returned still has the non-empty
\* FALToken it was created with when the caller reads it afterwards, in
\* GetFALToken and in the generation handler, whatever Delete,
\* DeleteUserSessions or Cleanup do to the session in between.
C38_TokenKeptAfterGet ==
    \A t \in Threads :
        /\ (/\ th[t].op = "GetFALToken" /\ th[t].pc = "done"
            /\ th[t].res \notin {ErrEmptyID, ErrNotFound, ErrExpired}) =>
               th[t].res = ErrNone /\ th[t].tok # NoToken
        /\ (th[t].op = "GenerateImage" /\ th[t].pc = "done" /\ th[t].res = ErrNone) =>
               th[t].tok # NoToken

\* ------------------------------------------------------ C39
Handlers == {"DeleteSession", "GenerateImage"}

\* C39 as claimed: a request with the id of a session of another user is
\* rejected before any effect: the generation client is never called with
\* that session's token, and no step of the request removes that session.
C39_ForeignSessionUntouched ==
    [][\A t \in Threads :
          (th[t].op \in Handlers /\ th'[t] # th[t]) =>
              /\ (th'[t].pc = "done" /\ th'[t].res = ErrNone /\ th'[t].s # NoID) =>
                    heap[th'[t].s].UserID = th[t].user
              /\ \A i \in sessions \ sessions' : heap[i].UserID = th[t].user]_vars

\* C39, amended: such a request is rejected, the generation client is never
\* called with that session's token, and the handler never calls Delete on
\* that session; the session is removed by the request only when the Get of
\* the ownership check itself finds it expired.
C39_ForeignSessionRejected ==
    [][\A t \in Threads :
          (th[t].op \in Handlers /\ th'[t] # th[t]) =>
              /\ (th'[t].pc = "done" /\ th'[t].s # NoID /\ heap[th'[t].s].UserID # th[t].user) =>
                    /\ th'[t].res \in {ErrAccessDenied, ErrValidSession, ErrSessionNotFound}
                    /\ th'[t].tok = NoToken
              /\ \A i \in sessions \ sessions' :
                    heap[i].UserID # th[t].user => ~th[t].own]_vars

\* both handlers turned down for a live session of another user, which is
\* still stored with its token
C39_Witness ==
    /\ Returned(1, "DeleteSession", ErrAccessDenied)
    /\ Returned(2, "GenerateImage", ErrValidSession)
    /\ \A t \in Threads :
          /\ th[t].s \in sessions
          /\ heap[th[t].s].UserID # th[t].user
          /\ heap[th[t].s].FALToken # NoToken

\* ------------------------------------------------------ C40
\* C40: the store is free of deadlock: whatever Create, Get (with its Delete
\* of an expired session), Delete, GetUserSession, DeleteUserSessions,
\* ExtendSession, Cleanup and Stats the goroutines call, and however their
\* steps interleave, every call that was started acquires its lock and
\* returns.
C40_EveryCallReturns ==
    \A t \in Threads : (th[t].pc # "new") ~> (th[t].pc = "done")

\* a Get that removed the expired session itself has returned next to a
\* call that took the write lock
C40_Witness ==
    /\ Returned(1, "Get", ErrExpired) /\ th[1].id = 1 /\ 1 \notin sessions
    /\ th[2].pc = "done" /\ th[2].op \in {"ExtendSession", "Cleanup", "DeleteUserSessions"}
====
